---- MODULE Spec2Model ----
(***************************************************************************)
(* Datadog MCP server: the domain clients (metrics, logs, events,          *)
(* monitors, APM, services) and the tool handlers built on them.           *)
(*                                                                         *)
(* JavaScript runs each handler to completion between awaits, so one       *)
(* action of the model is one synchronous segment: from the call (or from  *)
(* the settling of the awaited vendor promise) to the next await or to the *)
(* return.  The vendor SDK is the environment: every awaited call is       *)
(* answered by VendorResolve or VendorReject.                              *)
(***************************************************************************)
EXTENDS Integers, Sequences, FiniteSets, TLC

VARIABLES
    pc,       \* "idle" | "await" | "done"
    tool,     \* name of the tool being served, "none" for a direct client call
    input,    \* the tool's argument object
    method,   \* the client method in progress
    args,     \* its arguments
    stage,    \* which await of the method is outstanding
    acc,      \* the method's local state carried across awaits
    calls,    \* vendor calls issued so far by this invocation, in order
    results,  \* how the vendor settled them, in order
    result,   \* how the client method's promise settled
    reply,    \* how the tool handler's promise settled
    hintArgs, \* the message and status code handed to formatToolError
    formatted, \* the text formatToolError returned for them
    timeArg,  \* the time value handed to a timestamp parser
    parsedTime, \* which parser it was handed to, and what the parser did
    request,  \* the tool name of the tools/call request being served, if any
    proc,     \* the server process: "starting" | "running" | "exited"
    inv       \* the tool invocations in progress side by side, each with its own
              \* pc, tool, input, method, args, stage, acc, calls, results,
              \* result and reply

vars == <<pc, tool, input, method, args, stage, acc, calls, results, result, reply,
          hintArgs, formatted, timeArg, parsedTime, request, proc, inv>>

-----------------------------------------------------------------------------
(* Bounds of the model *)

\* timestamps handed to the clients range over 1..MaxT (in thousands of ms)
MaxT == 2
\* longest span list a vendor response carries
MaxSpans == 2
\* the longest list of monitors the vendor answers with
MaxMonitors == 101

-----------------------------------------------------------------------------
(* JavaScript values *)

\* null / undefined, and a present value, for fields that may be absent
Null == <<>>
Some(v) == <<v>>

Undef == [t |-> "undefined"]
Num(n) == [t |-> "number", n |-> n]
Str(s) == [t |-> "string", v |-> s]
Arr(q) == [t |-> "array", q |-> q]

\* ToBoolean
Truthy(x) ==
    CASE x.t = "undefined" -> FALSE
      [] x.t = "number" -> x.n # 0
      [] x.t = "string" -> x.v # ""
      [] x.t = "array" -> TRUE

\* x == null
IsNullish(x) == x.t = "undefined"

Min(a, b) == IF a < b THEN a ELSE b

\* Math.min(x || dflt, cap) for a numeric x
MinOrDefault(x, dflt, cap) == Min(IF Truthy(x) THEN x.n ELSE dflt, cap)

\* new Date(ms).toISOString(): the instant as an ISO-8601 string
ToISOString(ms) == [iso |-> ms]

RECURSIVE TrimLeft(_)
TrimLeft(s) ==
    IF Len(s) > 0 /\ SubSeq(s, 1, 1) = " " THEN TrimLeft(SubSeq(s, 2, Len(s))) ELSE s

RECURSIVE TrimRight(_)
TrimRight(s) ==
    IF Len(s) > 0 /\ SubSeq(s, Len(s), Len(s)) = " "
    THEN TrimRight(SubSeq(s, 1, Len(s) - 1)) ELSE s

\* String.prototype.trim
Trim(s) == TrimRight(TrimLeft(s))

\* String.prototype.includes
Includes(s, p) ==
    \E i \in 1..(Len(s) - Len(p) + 1) : SubSeq(s, i, i + Len(p) - 1) = p

\* s.split(":")[0]
RECURSIVE BeforeColon(_)
BeforeColon(s) ==
    IF Len(s) = 0 \/ SubSeq(s, 1, 1) = ":" THEN ""
    ELSE SubSeq(s, 1, 1) \o BeforeColon(SubSeq(s, 2, Len(s)))

\* Array.prototype.join over strings
RECURSIVE Join(_, _)
Join(q, sep) ==
    IF Len(q) = 0 THEN ""
    ELSE IF Len(q) = 1 THEN q[1]
    ELSE q[1] \o sep \o Join(Tail(q), sep)

\* Array.prototype.slice(0, n)
Slice(q, n) == SubSeq(q, 1, Min(Len(q), n))

-----------------------------------------------------------------------------
(* Errors and outcomes *)

\* an error thrown by the vendor SDK: message and optional statusCode
Error(message, statusCode) ==
    [name |-> "Error", message |-> message, statusCode |-> statusCode]

DatadogClientError3(message, statusCode, originalError) ==
    [name |-> "DatadogClientError", message |-> message, statusCode |-> statusCode]

\* new DatadogClientError(message): statusCode defaults to null
DatadogClientError(message) == DatadogClientError3(message, Null, Null)

\* error.statusCode || 500
StatusOr500(error) ==
    IF error.statusCode = Null \/ error.statusCode = Some(0)
    THEN 500 ELSE error.statusCode[1]

\* error.statusCode ?? 500
StatusCoalesce500(error) ==
    IF error.statusCode = Null THEN 500 ELSE error.statusCode[1]

\* `HTTP ${code}: ${error.message}`
HttpMessage(code, error) == "HTTP " \o ToString(code) \o ": " \o error.message

Ok(data) == [data |-> Some(data), error |-> Null]
Fail(error) == [data |-> Null, error |-> Some(error)]

StartBeforeEnd == "Start time must be before end time"

-----------------------------------------------------------------------------
(* Segments of an async method: what it does up to its next await *)

\* the promise resolves with outcome o
Ret(o) == [k |-> "ret", v |-> o]
\* the promise rejects with error e
Rej(e) == [k |-> "rej", err |-> e]
\* the method issues the vendor calls cs and awaits; a carries its locals
Await(cs, st, a) == [k |-> "call", cs |-> cs, stage |-> st, acc |-> a]

VCall(api, params) == [api |-> api, params |-> params]

-----------------------------------------------------------------------------
(* ApmClient *)

\* a ?? b
Coalesce(a, b) == IF a # Null THEN a ELSE b

\* A span of the vendor response: duration is attrs.duration, where attrs is
\* span.attributes || span, and spanDuration is span.duration; the two are
\* the same property when the span has no attributes object.
\* The grouping loop of queryTraces: one span folded into byTrace
AddSpan(byTrace, span) ==
    LET known == \E i \in 1..Len(byTrace) : byTrace[i].trace_id = span.trace_id
        withEntry ==
            IF known THEN byTrace
            ELSE Append(byTrace, [trace_id |-> span.trace_id, span_count |-> 0,
                                  duration |-> Coalesce(span.duration, span.spanDuration)])
        bump(e) ==
            IF e.trace_id # span.trace_id THEN e
            ELSE [e EXCEPT !.span_count = @ + 1,
                           !.duration =
                               IF span.duration # Null
                                  /\ (@ = Null \/ span.duration[1] > @[1])
                               THEN span.duration ELSE @]
    IN  [i \in 1..Len(withEntry) |-> bump(withEntry[i])]

RECURSIVE GroupSpans(_, _)
GroupSpans(byTrace, spans) ==
    IF spans = <<>> THEN byTrace
    ELSE GroupSpans(AddSpan(byTrace, Head(spans)), Tail(spans))

_queryTracesFallbackMetrics(filter, from, to, limit) ==
    LET fromSec == from \div 1000
        toSec == to \div 1000
        query == IF filter # ""
                 THEN "trace." \o BeforeColon(filter) \o "{" \o filter \o "}"
                 ELSE "trace.*"
    IN  Await(<<VCall("metricsApi.queryMetrics",
                      [from |-> fromSec, to |-> toSec, query |-> query])>>,
              "fallback", [limit |-> limit])

\* the rest of _queryTracesFallbackMetrics after its await; it has no
\* try/catch, so a rejected vendor call rejects its promise
_queryTracesFallbackMetricsResume(a, r) ==
    IF ~r.ok THEN Rej(r.err)
    ELSE LET series == r.resp.series
             traces == [i \in 1..Len(Slice(series, a.limit)) |->
                          [trace_id |-> series[i].scope,
                           span_count |-> series[i].pointlist,
                           scope |-> series[i].scope]]
         IN  Ret(Ok([traces |-> traces, tracesCount |-> Len(traces),
                     message |-> "Trace metrics available"]))

\* queryTraces as it would be if the service name alone chose the path: the
\* span query is built and sent only when a service name is supplied
queryTracesByServiceName(a) ==
    IF a.from >= a.to THEN Ret(Fail(DatadogClientError(StartBeforeEnd)))
    ELSE
    LET limit == MinOrDefault(a.options.pageSize, 100, 100)
        serviceName == a.options.serviceName
        queryParts ==
            (IF Truthy(serviceName) THEN <<"service:" \o serviceName.v>> ELSE <<>>)
            \o (IF a.filter # "" /\ Trim(a.filter) # "" THEN <<Trim(a.filter)>> ELSE <<>>)
    IN  IF Truthy(serviceName)
        THEN Await(<<VCall("spansApi.listSpansGet",
                           [filterQuery |-> Join(queryParts, " "),
                            filterFrom |-> ToISOString(a.from),
                            filterTo |-> ToISOString(a.to),
                            pageLimit |-> limit])>>,
                   "spans", [limit |-> limit])
        ELSE _queryTracesFallbackMetrics(a.filter, a.from, a.to, limit)

queryTraces(a) ==
    IF a.from >= a.to THEN Ret(Fail(DatadogClientError(StartBeforeEnd)))
    ELSE
    LET limit == MinOrDefault(a.options.pageSize, 100, 100)
        serviceName == a.options.serviceName
        queryParts ==
            (IF Truthy(serviceName) THEN <<"service:" \o serviceName.v>> ELSE <<>>)
            \o (IF a.filter # "" /\ Trim(a.filter) # "" THEN <<Trim(a.filter)>> ELSE <<>>)
        spanQuery == Join(queryParts, " ")
    IN  IF Len(queryParts) > 0 /\ spanQuery # ""
        THEN Await(<<VCall("spansApi.listSpansGet",
                           [filterQuery |-> spanQuery,
                            filterFrom |-> ToISOString(a.from),
                            filterTo |-> ToISOString(a.to),
                            pageLimit |-> limit])>>,
                   "spans", [limit |-> limit])
        ELSE _queryTracesFallbackMetrics(a.filter, a.from, a.to, limit)

\* queryTraces after an await.  The fallback promise is returned without
\* being awaited, so the outer try/catch never sees its rejection.
queryTracesResume(a, st, lc, r) ==
    IF st = "spans"
    THEN IF r.ok
         THEN LET traces == GroupSpans(<<>>, r.resp.data)
              IN  Ret(Ok([traces |-> traces, tracesCount |-> Len(traces),
                          message |-> IF Len(traces) > 0
                                      THEN "Trace list from Spans API"
                                      ELSE "No traces in range"]))
         ELSE _queryTracesFallbackMetrics(a.filter, a.from, a.to, lc.limit)
    ELSE _queryTracesFallbackMetricsResume(lc, r)

ApmGetServiceDependencies(a) ==
    IF ~Truthy(a.serviceName)
    THEN Ret(Fail(DatadogClientError("Service name is required")))
    ELSE Await(<<VCall("metricsApi.queryMetrics",
                       [from |-> a.from \div 1000, to |-> a.to \div 1000,
                        query |-> "trace.*{service:" \o a.serviceName.v \o "}"])>>,
               "query", Null)

ApmGetServiceDependenciesResume(a, st, lc, r) ==
    IF r.ok
    THEN Ret(Ok([service |-> a.serviceName.v, dependencies |-> r.resp.series,
                 message |-> "Service metrics (dependencies require service map API)"]))
    ELSE Ret(Fail(DatadogClientError(HttpMessage(StatusOr500(r.err), r.err))))

\* the nine trace-metric queries of getServiceHealth, issued together
HealthQueries(filter) ==
    <<"trace.http.request.hits{" \o filter \o "}",
      "trace.servlet.request.hits{" \o filter \o "}",
      "trace.rack.request.hits{" \o filter \o "}",
      "trace.http.request.errors{" \o filter \o "}",
      "trace.servlet.request.errors{" \o filter \o "}",
      "trace.rack.request.errors{" \o filter \o "}",
      "avg:trace.http.request.duration{" \o filter \o "}",
      "avg:trace.servlet.request.duration{" \o filter \o "}",
      "avg:trace.rack.request.duration{" \o filter \o "}">>

getServiceHealth(a) ==
    IF ~Truthy(a.serviceName)
    THEN Ret(Fail(DatadogClientError("Service name is required")))
    ELSE IF a.from >= a.to
    THEN Ret(Fail(DatadogClientError(StartBeforeEnd)))
    ELSE
    LET fromSec == a.from \div 1000
        toSec == a.to \div 1000
        filter == Join(<<"service:" \o a.serviceName.v>>
                       \o (IF Truthy(a.options.env)
                           THEN <<"env:" \o a.options.env.v>> ELSE <<>>), ",")
        qs == HealthQueries(filter)
    IN  Await([i \in 1..Len(qs) |->
                  VCall("metricsApi.queryMetrics",
                        [from |-> fromSec, to |-> toSec, query |-> qs[i]])],
              "health", <<>>)

\* mergeSeries over the results at positions lo..hi
RECURSIVE MergeSeries(_, _, _)
MergeSeries(rs, lo, hi) ==
    IF lo > hi THEN <<>> ELSE rs[lo].series \o MergeSeries(rs, lo + 1, hi)

\* one of the nine promises settles: a rejection is replaced by {series: []}
\* by its own .catch; the method returns when Promise.all has them all
getServiceHealthResume(a, st, lc, r) ==
    LET rs == Append(lc, IF r.ok THEN r.resp ELSE [series |-> <<>>])
    IN  IF Len(rs) < 9 THEN Await(<<>>, "health", rs)
        ELSE Ret(Ok([service |-> a.serviceName.v,
                     requests |-> MergeSeries(rs, 1, 3),
                     errors |-> MergeSeries(rs, 4, 6),
                     latency |-> MergeSeries(rs, 7, 9)]))

-----------------------------------------------------------------------------
(* MetricsClient *)

\* the catch block shared by the metrics and monitors clients
CatchCoalesce(error) ==
    LET statusCode == StatusCoalesce500(error)
    IN  Ret(Fail(DatadogClientError3(HttpMessage(statusCode, error),
                                     Some(statusCode), error)))

queryMetrics(a) ==
    IF ~Truthy(a.query)
    THEN Ret(Fail(DatadogClientError("Query parameter is required")))
    ELSE IF a.from >= a.to
    THEN Ret(Fail(DatadogClientError(StartBeforeEnd)))
    ELSE Await(<<VCall("metricsApi.queryMetrics",
                       [from |-> a.from, to |-> a.to, query |-> a.query.v])>>,
               "query", Null)

queryMetricsResume(a, st, lc, r) ==
    IF r.ok THEN Ret(Ok(r.resp)) ELSE CatchCoalesce(r.err)

getMetricMetadata(a) ==
    IF ~Truthy(a.metricName)
    THEN Ret(Fail(DatadogClientError("Metric name is required")))
    ELSE Await(<<VCall("metricsApi.getMetricMetadata",
                       [metricName |-> a.metricName.v])>>, "query", Null)

getMetricMetadataResume(a, st, lc, r) ==
    IF r.ok THEN Ret(Ok(r.resp)) ELSE CatchCoalesce(r.err)

listMetrics(a) ==
    Await(<<VCall("metricsApi.listMetrics",
                  [q |-> IF a.query # "" THEN a.query ELSE "*"])>>, "query", Null)

listMetricsResume(a, st, lc, r) ==
    IF r.ok THEN Ret(Ok(r.resp)) ELSE CatchCoalesce(r.err)

-----------------------------------------------------------------------------
(* LogsClient *)

\* the catch block shared by the logs client's methods
CatchOr500(error) ==
    Ret(Fail(DatadogClientError3(HttpMessage(StatusOr500(error), error),
                                 Some(StatusOr500(error)), error)))

\* pageSize = 10 is the parameter's default, taken when it is undefined
searchLogs(a) ==
    LET pageSize == IF IsNullish(a.pageSize) THEN 10 ELSE a.pageSize.n
    IN  IF a.from >= a.to
        THEN Ret(Fail(DatadogClientError(StartBeforeEnd)))
        ELSE IF pageSize < 1 \/ pageSize > 100
        THEN Ret(Fail(DatadogClientError("Page size must be between 1 and 100")))
        ELSE Await(<<VCall("logsApi.listLogs",
                           [filter |-> [from |-> ToISOString(a.from),
                                        to |-> ToISOString(a.to),
                                        query |-> a.filter],
                            page |-> [limit |-> pageSize],
                            sort |-> "timestamp"])>>, "list", Null)

searchLogsResume(a, st, lc, r) ==
    IF r.ok THEN Ret(Ok(r.resp)) ELSE CatchOr500(r.err)

\* /^[a-zA-Z0-9_-]+$/ over the characters a log ID of the model can hold
LogIdChars == {"a", "b", "c", "1", "2", "_", "-"}

IsSafeLogId(s) ==
    Len(s) > 0 /\ \A i \in 1..Len(s) : SubSeq(s, i, i) \in LogIdChars

getLogDetails(a) ==
    IF ~Truthy(a.logId) \/ a.logId.t # "string"
    THEN Ret(Fail(DatadogClientError("Log ID is required")))
    ELSE
    LET logIdStr == Trim(a.logId.v)
    IN  IF logIdStr = "" \/ Len(logIdStr) > 512 \/ ~IsSafeLogId(logIdStr)
        THEN Ret(Fail(DatadogClientError(
                 "Invalid log ID format: use only letters, numbers, hyphens, and underscores")))
        ELSE Await(<<VCall("logsApi.listLogs",
                           [filter |-> [query |-> "@_id:" \o logIdStr],
                            page |-> [limit |-> 1]])>>, "list", Null)

\* result?.data?.[0] ?? null becomes the outcome's data
getLogDetailsResume(a, st, lc, r) ==
    IF r.ok
    THEN [k |-> "ret",
          v |-> [data |-> IF Len(r.resp.data) > 0 THEN Some(r.resp.data[1]) ELSE Null,
                 error |-> Null]]
    ELSE CatchOr500(r.err)

validTypes == <<"avg", "max", "min", "sum", "cardinality">>

aggregateLogs(a) ==
    IF a.from >= a.to
    THEN Ret(Fail(DatadogClientError(StartBeforeEnd)))
    ELSE IF ~Truthy(a.aggregationType)
    THEN Ret(Fail(DatadogClientError("Aggregation type is required")))
    ELSE IF ~(\E i \in 1..Len(validTypes) :
                a.aggregationType.t = "string" /\ validTypes[i] = a.aggregationType.v)
    THEN Ret(Fail(DatadogClientError(
             "Invalid aggregation type. Must be one of: " \o Join(validTypes, ", "))))
    ELSE Await(<<VCall("logsApi.aggregateLogs",
                       [filter |-> [from |-> ToISOString(a.from),
                                    to |-> ToISOString(a.to),
                                    query |-> a.filter],
                        compute |-> <<[aggregation |-> a.aggregationType.v,
                                       metric |-> "@timestamp"]>>])>>,
               "aggregate", Null)

aggregateLogsResume(a, st, lc, r) ==
    IF r.ok THEN Ret(Ok(r.resp)) ELSE CatchOr500(r.err)

-----------------------------------------------------------------------------
(* EventsClient *)

\* the catch block shared by the events and APM clients: the status code
\* goes into the message only, DatadogClientError gets no statusCode argument
CatchMessageOnly(error) ==
    Ret(Fail(DatadogClientError(HttpMessage(StatusOr500(error), error))))

\* `${x}` for a JavaScript value
TemplateString(x) ==
    CASE x.t = "undefined" -> "undefined"
      [] x.t = "number" -> ToString(x.n)
      [] x.t = "string" -> x.v
      [] x.t = "array" -> "[array]"

\* pageSize = Math.min(options.pageSize || 10, 100) is computed and then not
\* used: listEvents is called with start, end and tags only
searchEvents(a) ==
    IF a.from >= a.to
    THEN Ret(Fail(DatadogClientError(StartBeforeEnd)))
    ELSE
    LET pageSize == MinOrDefault(a.options.pageSize, 10, 100)
    IN  Await(<<VCall("eventsApi.listEvents",
                      [start |-> a.from, end |-> a.to, tags |-> a.query])>>,
              "list", Null)

searchEventsResume(a, st, lc, r) ==
    IF r.ok THEN Ret(Ok(r.resp)) ELSE CatchMessageOnly(r.err)

\* the test by truthiness alone: !id
MissingByTruthiness(id) == ~Truthy(id)

\* !id && id !== 0
MissingUnlessZero(id) == ~Truthy(id) /\ ~(id.t = "number" /\ id.n = 0)

getEventDetails(a) ==
    IF MissingUnlessZero(a.eventId)
    THEN Ret(Fail(DatadogClientError("Event ID is required")))
    ELSE Await(<<VCall("eventsApi.getEvent", [eventId |-> a.eventId])>>, "get", Null)

getEventDetailsResume(a, st, lc, r) ==
    IF r.ok THEN Ret(Ok(r.resp)) ELSE CatchMessageOnly(r.err)

\* the arguments the convenience methods hand to searchEvents(query, from, to)
DelegateArgs(query, a) ==
    [query |-> query, from |-> a.from, to |-> a.to, options |-> [pageSize |-> Undef]]

getMonitorEvents(a) ==
    IF MissingUnlessZero(a.monitorId)
    THEN Ret(Fail(DatadogClientError("Monitor ID is required")))
    ELSE IF a.from >= a.to
    THEN Ret(Fail(DatadogClientError(StartBeforeEnd)))
    ELSE searchEvents(DelegateArgs("monitor_id:" \o TemplateString(a.monitorId), a))

searchEventsByAlertType(a) ==
    IF ~Truthy(a.alertType)
    THEN Ret(Fail(DatadogClientError("Alert type is required")))
    ELSE searchEvents(DelegateArgs("alert_type:" \o TemplateString(a.alertType), a))

UpperChar(c) ==
    CASE c = "a" -> "A" [] c = "n" -> "N" [] c = "d" -> "D"
      [] c = "o" -> "O" [] c = "r" -> "R" [] OTHER -> c

RECURSIVE Upper(_)
Upper(s) ==
    IF Len(s) = 0 THEN "" ELSE UpperChar(SubSeq(s, 1, 1)) \o Upper(SubSeq(s, 2, Len(s)))

\* / AND | OR /i.test(t)
HasBooleanKeyword(t) == Includes(Upper(t), " AND ") \/ Includes(Upper(t), " OR ")

\* typeof tag === "string" ? tag.trim() : ""
TagText(tag) == IF tag.t = "string" THEN Trim(tag.v) ELSE ""

\* the validation loop of searchEventsByTags: the first failing tag's error,
\* or the list of safe tags
RECURSIVE CheckTags(_, _)
CheckTags(tags, safeTags) ==
    IF tags = <<>> THEN [ok |-> TRUE, safeTags |-> safeTags]
    ELSE LET t == TagText(Head(tags))
         IN  IF t = "" \/ Len(t) > 256
             THEN [ok |-> FALSE,
                   message |-> "Each tag must be a non-empty string of at most 256 characters"]
             ELSE IF HasBooleanKeyword(t)
             THEN [ok |-> FALSE,
                   message |-> "Tags must not contain ' AND ' or ' OR ' (reserved query syntax)"]
             ELSE CheckTags(Tail(tags), Append(safeTags, t))

searchEventsByTags(a) ==
    IF a.tags.t # "array" \/ Len(a.tags.q) = 0
    THEN Ret(Fail(DatadogClientError("At least one tag is required")))
    ELSE
    LET checked == CheckTags(a.tags.q, <<>>)
    IN  IF ~checked.ok THEN Ret(Fail(DatadogClientError(checked.message)))
        ELSE searchEvents(DelegateArgs(
                 Join([i \in 1..Len(checked.safeTags) |-> "tags:" \o checked.safeTags[i]],
                      " AND "), a))

\* how many times method m, run on a, evaluates `from >= to` in its own body,
\* before it delegates
OwnRangeChecks(m, a) ==
    IF m = "getMonitorEvents" /\ ~MissingUnlessZero(a.monitorId) THEN 1 ELSE 0

\* whether method m, run on a, gets as far as calling searchEvents
Delegates(m, a) ==
    CASE m = "getMonitorEvents" -> ~MissingUnlessZero(a.monitorId) /\ ~(a.from >= a.to)
      [] m = "searchEventsByAlertType" -> Truthy(a.alertType)
      [] m = "searchEventsByTags" ->
             a.tags.t = "array" /\ Len(a.tags.q) > 0 /\ CheckTags(a.tags.q, <<>>).ok

\* how many times `from >= to` is evaluated in all while m runs on a:
\* searchEvents evaluates it once
RangeChecks(m, a) == OwnRangeChecks(m, a) + (IF Delegates(m, a) THEN 1 ELSE 0)

\* the convenience methods return searchEvents' promise, which never rejects
DelegateResume(a, st, lc, r) ==
    searchEventsResume(a, st, lc, r)

-----------------------------------------------------------------------------
(* MonitorsClient *)

\* status is not among the filters listMonitors forwards
listMonitors(a) ==
    LET f == a.filters
        tags == IF Truthy(f.tags) /\ f.tags.t = "array"
                THEN Some(Join([i \in 1..Len(f.tags.q) |-> TemplateString(f.tags.q[i])], ","))
                ELSE Null
        monitorTags == IF Truthy(f.monitorType) THEN Some(f.monitorType.v) ELSE Null
    IN  Await(<<VCall("monitorsApi.listMonitors",
                      [name |-> IF Truthy(f.name) THEN Some(f.name.v) ELSE Null,
                       tags |-> tags, monitorTags |-> monitorTags])>>, "list", Null)

listMonitorsResume(a, st, lc, r) ==
    IF r.ok THEN Ret(Ok(r.resp)) ELSE CatchCoalesce(r.err)

getMonitorStatus(a) ==
    IF MissingUnlessZero(a.monitorId)
    THEN Ret(Fail(DatadogClientError("Monitor ID is required")))
    ELSE Await(<<VCall("monitorsApi.getMonitor", [monitorId |-> a.monitorId])>>,
               "get", Null)

getMonitorStatusResume(a, st, lc, r) ==
    IF r.ok THEN Ret(Ok(r.resp)) ELSE CatchCoalesce(r.err)

searchMonitors(a) ==
    IF ~Truthy(a.query)
    THEN Ret(Fail(DatadogClientError("Search query is required")))
    ELSE Await(<<VCall("monitorsApi.searchMonitors", [query |-> a.query.v])>>,
               "search", Null)

searchMonitorsResume(a, st, lc, r) ==
    IF r.ok THEN Ret(Ok(r.resp)) ELSE CatchCoalesce(r.err)

-----------------------------------------------------------------------------
(* ApiClient and ServicesClient *)

\* ApiClient._request after fetch settles: the parsed body, or the
\* DatadogClientError it throws
_request(r) ==
    IF r.ok
    THEN IF r.resp.ok
         THEN [ok |-> TRUE, resp |-> r.resp.body]
         ELSE [ok |-> FALSE,
               err |-> DatadogClientError3(
                           "HTTP " \o ToString(r.resp.status) \o ": " \o r.resp.statusText,
                           Some(r.resp.status), Null)]
    ELSE [ok |-> FALSE,
          err |-> DatadogClientError3(
                      IF r.err.message # "" THEN r.err.message ELSE "Unknown request error",
                      Null, r.err)]

\* ApiClient.get: the {data, error} pair it resolves to
ApiGet(r) ==
    LET q == _request(r)
    IN  IF q.ok THEN [data |-> Some(q.resp), error |-> Null]
        ELSE [data |-> Null, error |-> Some(q.err)]

normalizeGetAllResponse(raw) ==
    LET withCalls == SelectSeq(raw, LAMBDA e : e.hasCalls)
        RECURSIVE Deps(_)
        Deps(es) ==
            IF es = <<>> THEN <<>>
            ELSE [i \in 1..Len(Head(es).calls) |->
                     [from |-> Head(es).name, to |-> Head(es).calls[i]]]
                 \o Deps(Tail(es))
    IN  [services |-> [i \in 1..Len(withCalls) |->
                          [name |-> withCalls[i].name, type |-> "service"]],
         dependencies |-> Deps(withCalls)]

\* the elements of q in order of first occurrence, empty names dropped
RECURSIVE UniqueNames(_, _)
UniqueNames(q, seen) ==
    IF q = <<>> THEN <<>>
    ELSE IF Head(q) \in seen \/ Head(q) = "" THEN UniqueNames(Tail(q), seen)
    ELSE <<Head(q)>> \o UniqueNames(Tail(q), seen \cup {Head(q)})

normalizeGetOneResponse(raw) ==
    LET allNames == UniqueNames(<<raw.name>> \o raw.calls \o raw.called_by, {})
    IN  [services |-> [i \in 1..Len(allNames) |->
                          [name |-> allNames[i], type |-> "service"]],
         dependencies |->
             [i \in 1..Len(raw.calls) |-> [from |-> raw.name, to |-> raw.calls[i]]]
             \o [i \in 1..Len(raw.called_by) |->
                    [from |-> raw.called_by[i], to |-> raw.name]]]

\* primaryTag, start and end are never supplied by this repository's callers
ServicesGetServiceDependencies(a) ==
    IF ~Truthy(a.env)
    THEN Ret(Fail(DatadogClientError("Environment (env) is required")))
    ELSE Await(<<VCall("fetch",
                       [path |-> "/service_dependencies",
                        service |-> IF Truthy(a.serviceName)
                                    THEN Some(TemplateString(a.serviceName)) ELSE Null,
                        env |-> TemplateString(a.env)])>>, "get", Null)

ServicesUnavailable ==
    "Service Dependencies API not available or insufficient permissions. "
    \o "This feature may require APM and the apm_read scope in your Datadog org."

ServicesGetServiceDependenciesResume(a, st, lc, r) ==
    LET got == ApiGet(r)
    IN  IF got.error # Null
        THEN LET error == got.error[1]
                 status == error.statusCode
             IN  IF status = Some(403) \/ status = Some(404)
                    \/ Includes(error.message, "403") \/ Includes(error.message, "404")
                 THEN Ret(Ok([dependencies |-> <<>>, services |-> <<>>,
                              message |-> Some(ServicesUnavailable)]))
                 ELSE Ret([data |-> Null, error |-> Some(error)])
        ELSE LET n == IF Truthy(a.serviceName)
                      THEN normalizeGetOneResponse(got.data[1])
                      ELSE normalizeGetAllResponse(got.data[1])
             IN  Ret(Ok([dependencies |-> n.dependencies, services |-> n.services,
                         message |-> Null]))

\* results[env] = result.error ? {error} : result.data
SetEnvResult(res, env, o) ==
    [e \in DOMAIN res \cup {env} |->
        IF e = env
        THEN (IF o.error # Null THEN [error |-> o.error, data |-> Null]
              ELSE [error |-> Null, data |-> o.data])
        ELSE res[e]]

\* the loop of getServiceDependenciesMultiEnv from environment i on, up to
\* its next await
RECURSIVE MultiEnvLoop(_, _, _)
MultiEnvLoop(envs, i, res) ==
    IF i > Len(envs) THEN Ret(Ok(res))
    ELSE LET step == ServicesGetServiceDependencies(
                         [env |-> envs[i], serviceName |-> Undef])
         IN  IF step.k = "ret"
             THEN MultiEnvLoop(envs, i + 1, SetEnvResult(res, TemplateString(envs[i]), step.v))
             ELSE Await(step.cs, "env", [i |-> i, res |-> res])

getServiceDependenciesMultiEnv(a) ==
    IF a.envs.t # "array" \/ Len(a.envs.q) = 0
    THEN Ret(Fail(DatadogClientError("At least one environment is required")))
    ELSE MultiEnvLoop(a.envs.q, 1, <<>>)

getServiceDependenciesMultiEnvResume(a, st, lc, r) ==
    LET envs == a.envs.q
        inner == ServicesGetServiceDependenciesResume(
                     [env |-> envs[lc.i], serviceName |-> Undef], "get", Null, r)
    IN  MultiEnvLoop(envs, lc.i + 1,
                     SetEnvResult(lc.res, TemplateString(envs[lc.i]), inner.v))

-----------------------------------------------------------------------------
(* Tool replies and error hints *)

\* the text of a content item: a plain string, or JSON.stringify of a body
PlainText(str) == [json |-> FALSE, s |-> str]
JsonText(body) == [json |-> TRUE, body |-> body]

ToolReply(isError, text) ==
    [isError |-> isError, content |-> <<[type |-> "text", text |-> text]>>]

ErrorReply(str) == ToolReply(TRUE, PlainText(str))

\* the hint rules with the wording of the message tried before the status code
getActionableHintWordingFirst(message, statusCode) ==
    IF message # ""
       /\ (Includes(message, "must be before") \/ Includes(message, "Start time")
           \/ (Includes(message, "from") /\ Includes(message, "to")))
    THEN "Ensure 'from' is before 'to'."
    ELSE IF message # "" /\ Includes(message, "Invalid") /\ Includes(message, "format")
    THEN "Use Unix timestamp (seconds or ms) or ISO 8601 (e.g. 2021-01-01T00:00:00Z)."
    ELSE IF statusCode = Some(401) \/ statusCode = Some(403)
    THEN "Check DATADOG_API_KEY and DATADOG_APP_KEY and that the app key has the required scopes."
    ELSE IF statusCode = Some(404)
    THEN "No resource found. Check the ID or query and try again."
    ELSE IF statusCode = Some(429)
    THEN "Datadog rate limit hit. Retry after a short delay or reduce request frequency."
    ELSE ""

getActionableHint(message, statusCode) ==
    IF statusCode = Some(401) \/ statusCode = Some(403)
    THEN "Check DATADOG_API_KEY and DATADOG_APP_KEY and that the app key has the required scopes."
    ELSE IF statusCode = Some(404)
    THEN "No resource found. Check the ID or query and try again."
    ELSE IF statusCode = Some(429)
    THEN "Datadog rate limit hit. Retry after a short delay or reduce request frequency."
    ELSE IF message # ""
            /\ (Includes(message, "must be before") \/ Includes(message, "Start time")
                \/ (Includes(message, "from") /\ Includes(message, "to")))
    THEN "Ensure 'from' is before 'to'."
    ELSE IF message # "" /\ Includes(message, "Invalid") /\ Includes(message, "format")
    THEN "Use Unix timestamp (seconds or ms) or ISO 8601 (e.g. 2021-01-01T00:00:00Z)."
    ELSE ""

formatToolError(message, statusCode) ==
    LET hint == getActionableHint(message, statusCode)
    IN  IF hint # "" THEN message \o " " \o hint ELSE message

\* a TypeError raised by reading a property of null or undefined
TypeError(prop) ==
    Error("Cannot read properties of undefined (reading '" \o prop \o "')", Null)

-----------------------------------------------------------------------------
(* Timestamp parsing in the tools *)

\* ISO-8601 strings Date can parse, with their epoch milliseconds
IsoStrings == {"1970-01-01T00:00:01Z", "1970-01-01T00:00:02Z"}

IsoMillis(str) == IF str = "1970-01-01T00:00:01Z" THEN 1000 ELSE 2000

DigitValue(c) ==
    CASE c = "0" -> 0 [] c = "1" -> 1 [] c = "2" -> 2 [] c = "3" -> 3 [] c = "4" -> 4
      [] c = "5" -> 5 [] c = "6" -> 6 [] c = "7" -> 7 [] c = "8" -> 8 [] c = "9" -> 9
      [] OTHER -> -1

\* the value of the leading digits of str, given the value n read so far
RECURSIVE LeadingDigits(_, _)
LeadingDigits(str, n) ==
    IF Len(str) = 0 \/ DigitValue(SubSeq(str, 1, 1)) < 0 THEN n
    ELSE LeadingDigits(SubSeq(str, 2, Len(str)), 10 * n + DigitValue(SubSeq(str, 1, 1)))

\* parseInt(str, 10): Null for NaN
ParseInt(str) ==
    IF Len(str) = 0 \/ DigitValue(SubSeq(str, 1, 1)) < 0 THEN Null
    ELSE Some(LeadingDigits(str, 0))

InvalidTimestamp(time) == Error("Invalid timestamp format: " \o TemplateString(time), Null)

Parsed(n) == [ok |-> TRUE, v |-> n]
Thrown(e) == [ok |-> FALSE, err |-> e]

\* parseTimestamp of the metrics tools and parseEventsTimestamp: seconds
parseTimestamp(time) ==
    IF time.t = "number" THEN Parsed(time.n)
    ELSE IF time.t = "string"
    THEN IF time.v \in IsoStrings THEN Parsed(IsoMillis(time.v) \div 1000)
         ELSE IF ParseInt(time.v) # Null THEN Parsed(ParseInt(time.v)[1])
         ELSE Thrown(InvalidTimestamp(time))
    ELSE Thrown(InvalidTimestamp(time))

\* the magnitude below which a number is read as seconds.  The source's
\* 10000000000 exceeds TLC's 32-bit integers, and so do the milliseconds of
\* the seconds just below it; the model keeps the test and scales the
\* threshold by 1/10000
MsThreshold == 1000000

\* the conversion with the factor of 1000 left out of the seconds branch
parseApmTimestampUnscaled(time, asSeconds) ==
    IF time.t = "number"
    THEN IF time.n < MsThreshold THEN Parsed(time.n)
         ELSE Parsed(IF asSeconds THEN time.n \div 1000 ELSE time.n)
    ELSE IF time.t = "string"
    THEN IF time.v \in IsoStrings
         THEN Parsed(IF asSeconds THEN IsoMillis(time.v) \div 1000 ELSE IsoMillis(time.v))
         ELSE IF ParseInt(time.v) # Null
         THEN LET unixValue == ParseInt(time.v)[1]
              IN  IF asSeconds
                  THEN Parsed(IF unixValue < MsThreshold
                              THEN unixValue ELSE unixValue \div 1000)
                  ELSE Parsed(IF unixValue < MsThreshold
                              THEN unixValue * 1000 ELSE unixValue)
         ELSE Thrown(InvalidTimestamp(time))
    ELSE Thrown(InvalidTimestamp(time))

\* parseApmTimestamp and parseLogsTimestamp: milliseconds, or seconds when
\* asSeconds is set
parseApmTimestamp(time, asSeconds) ==
    IF time.t = "number"
    THEN IF time.n < MsThreshold
         THEN Parsed(IF asSeconds THEN time.n ELSE time.n * 1000)
         ELSE Parsed(IF asSeconds THEN time.n \div 1000 ELSE time.n)
    ELSE IF time.t = "string"
    THEN IF time.v \in IsoStrings
         THEN Parsed(IF asSeconds THEN IsoMillis(time.v) \div 1000 ELSE IsoMillis(time.v))
         ELSE IF ParseInt(time.v) # Null
         THEN LET unixValue == ParseInt(time.v)[1]
              IN  IF asSeconds
                  THEN Parsed(IF unixValue < MsThreshold
                              THEN unixValue ELSE unixValue \div 1000)
                  ELSE Parsed(IF unixValue < MsThreshold
                              THEN unixValue * 1000 ELSE unixValue)
         ELSE Thrown(InvalidTimestamp(time))
    ELSE Thrown(InvalidTimestamp(time))

\* the tools call them with asSeconds left at its default, false
parseMsTimestamp(time) == parseApmTimestamp(time, FALSE)

-----------------------------------------------------------------------------
(* Tool handlers: the segment before the client call, and the segment after *)

\* the handler returns this reply without calling the client
Reply(r) == [k |-> "reply", v |-> r]
\* the handler awaits this client method
Client(m, a) == [k |-> "client", method |-> m, args |-> a]

RangeReply == ErrorReply("Error: Start time (from) must be before end time (to)")

\* the catch block of the metrics, monitors, APM and services handlers
CatchPlain(error) == ErrorReply("Error: " \o error.message)

\* the catch block of the logs and events handlers
CatchFormatted(error) ==
    ErrorReply("Error: " \o formatToolError(error.message, error.statusCode))

\* !input.x || typeof input.x !== "string"
NotNonEmptyString(x) == ~Truthy(x) \/ x.t # "string"

\* timeRange: {from: new Date(from).toISOString(), to: ...}
TimeRange(fromMs, toMs) == [from |-> ToISOString(fromMs), to |-> ToISOString(toMs)]

handleQueryTraces(inp) ==
    LET from == parseMsTimestamp(inp.from)
        to == parseMsTimestamp(inp.to)
    IN  IF ~from.ok THEN Reply(CatchPlain(from.err))
        ELSE IF ~to.ok THEN Reply(CatchPlain(to.err))
        ELSE IF from.v >= to.v THEN Reply(RangeReply)
        ELSE IF NotNonEmptyString(inp.serviceName)
        THEN Reply(ErrorReply("Error: serviceName must be a non-empty string"))
        ELSE Client("queryTraces",
                    [filter |-> IF Truthy(inp.filter) THEN inp.filter.v ELSE "",
                     from |-> from.v, to |-> to.v,
                     options |-> [serviceName |-> inp.serviceName,
                                  pageSize |-> Num(MinOrDefault(inp.limit, 100, 100))]])

\* the reply body carries serviceName, filter, timeRange, tracesCount and
\* traces; the client's message field is not copied into it
handleQueryTracesFinish(inp, o) ==
    IF o.error # Null
    THEN ErrorReply("Error querying traces: " \o o.error[1].message)
    ELSE
    LET traces == o.data[1].traces
        first == Slice(traces, 50)
        filter == IF Truthy(inp.filter) THEN inp.filter.v ELSE ""
    IN  ToolReply(FALSE, JsonText(
            [serviceName |-> inp.serviceName.v,
             filter |-> IF filter # "" THEN filter ELSE "all",
             timeRange |-> TimeRange(parseMsTimestamp(inp.from).v,
                                     parseMsTimestamp(inp.to).v),
             tracesCount |-> Len(traces),
             traces |-> [i \in 1..Len(first) |->
                            [trace_id |-> first[i].trace_id,
                             duration |-> IF "duration" \in DOMAIN first[i]
                                          THEN first[i].duration ELSE Null,
                             span_count |-> first[i].span_count]]]))

handleGetServiceHealth(inp) ==
    IF NotNonEmptyString(inp.serviceName)
    THEN Reply(ErrorReply("Error: serviceName must be a non-empty string"))
    ELSE
    LET from == parseMsTimestamp(inp.from)
        to == parseMsTimestamp(inp.to)
    IN  IF ~from.ok THEN Reply(CatchPlain(from.err))
        ELSE IF ~to.ok THEN Reply(CatchPlain(to.err))
        ELSE IF from.v >= to.v THEN Reply(RangeReply)
        ELSE Client("getServiceHealth",
                    [serviceName |-> inp.serviceName, from |-> from.v, to |-> to.v,
                     options |-> [env |-> inp.env]])

handleGetServiceHealthFinish(inp, o) ==
    IF o.error # Null
    THEN ErrorReply("Error retrieving service health: " \o o.error[1].message)
    ELSE ToolReply(FALSE, JsonText(
             [serviceName |-> inp.serviceName.v,
              timeRange |-> TimeRange(parseMsTimestamp(inp.from).v,
                                      parseMsTimestamp(inp.to).v),
              health |-> o.data[1]]))

ApmHandleGetServiceDependencies(inp) ==
    IF NotNonEmptyString(inp.serviceName)
    THEN Reply(ErrorReply("Error: serviceName must be a non-empty string"))
    ELSE
    LET from == parseMsTimestamp(inp.from)
        to == parseMsTimestamp(inp.to)
    IN  IF ~from.ok THEN Reply(CatchPlain(from.err))
        ELSE IF ~to.ok THEN Reply(CatchPlain(to.err))
        ELSE IF from.v >= to.v THEN Reply(RangeReply)
        ELSE Client("ApmGetServiceDependencies",
                    [serviceName |-> inp.serviceName, from |-> from.v, to |-> to.v])

ApmHandleGetServiceDependenciesFinish(inp, o) ==
    IF o.error # Null
    THEN ErrorReply("Error retrieving service dependencies: " \o o.error[1].message)
    ELSE ToolReply(FALSE, JsonText(
             [serviceName |-> inp.serviceName.v,
              timeRange |-> TimeRange(parseMsTimestamp(inp.from).v,
                                      parseMsTimestamp(inp.to).v),
              dependencies |-> o.data[1]]))

\* query_metrics without the check of the filter for braces
handleQueryMetricsAnyFilter(inp) ==
    LET from == parseTimestamp(inp.from)
        to == parseTimestamp(inp.to)
        metricName == IF inp.metricName.t = "string" THEN Trim(inp.metricName.v) ELSE ""
        filter == IF Truthy(inp.filter) /\ inp.filter.t = "string" THEN inp.filter.v ELSE ""
    IN  IF ~from.ok THEN Reply(CatchPlain(from.err))
        ELSE IF ~to.ok THEN Reply(CatchPlain(to.err))
        ELSE IF from.v >= to.v THEN Reply(RangeReply)
        ELSE IF metricName = ""
        THEN Reply(ErrorReply("Error: metricName must be a non-empty string"))
        ELSE Client("queryMetrics",
                    [query |-> Str(IF filter # ""
                                   THEN metricName \o "{" \o filter \o "}"
                                   ELSE metricName),
                     from |-> from.v, to |-> to.v])

handleQueryMetrics(inp) ==
    LET from == parseTimestamp(inp.from)
        to == parseTimestamp(inp.to)
        metricName == IF inp.metricName.t = "string" THEN Trim(inp.metricName.v) ELSE ""
        filter == IF Truthy(inp.filter) /\ inp.filter.t = "string" THEN inp.filter.v ELSE ""
    IN  IF ~from.ok THEN Reply(CatchPlain(from.err))
        ELSE IF ~to.ok THEN Reply(CatchPlain(to.err))
        ELSE IF from.v >= to.v THEN Reply(RangeReply)
        ELSE IF metricName = ""
        THEN Reply(ErrorReply("Error: metricName must be a non-empty string"))
        ELSE IF filter # "" /\ (Includes(filter, "{") \/ Includes(filter, "}"))
        THEN Reply(ErrorReply(
                 "Error: filter must not contain { or } (invalid for metric query syntax)"))
        ELSE Client("queryMetrics",
                    [query |-> Str(IF filter # ""
                                   THEN metricName \o "{" \o filter \o "}"
                                   ELSE metricName),
                     from |-> from.v, to |-> to.v])

handleQueryMetricsFinish(inp, o) ==
    IF o.error # Null
    THEN ErrorReply("Error querying metrics: " \o o.error[1].message)
    ELSE
    LET data == o.data[1]
        filter == IF Truthy(inp.filter) /\ inp.filter.t = "string" THEN inp.filter.v ELSE ""
    IN  ToolReply(FALSE, JsonText(
            [metric |-> Trim(inp.metricName.v),
             filter |-> IF filter # "" THEN filter ELSE "none",
             timeRange |-> TimeRange(parseTimestamp(inp.from).v * 1000,
                                     parseTimestamp(inp.to).v * 1000),
             seriesCount |-> Len(data.series),
             data |-> [series |-> Slice(data.series, 50)]]))

handleGetMetricMetadata(inp) ==
    IF NotNonEmptyString(inp.metricName)
    THEN Reply(ErrorReply("Error: metricName must be a non-empty string"))
    ELSE Client("getMetricMetadata", [metricName |-> inp.metricName])

handleGetMetricMetadataFinish(inp, o) ==
    IF o.error # Null
    THEN ErrorReply("Error retrieving metric metadata: " \o o.error[1].message)
    ELSE ToolReply(FALSE, JsonText([metric |-> inp.metricName.v, metadata |-> o.data[1]]))

handleListMetrics(inp) ==
    Client("listMetrics", [query |-> IF Truthy(inp.query) THEN inp.query.v ELSE ""])

handleListMetricsFinish(inp, o) ==
    IF o.error # Null
    THEN ErrorReply("Error listing metrics: " \o o.error[1].message)
    ELSE
    LET metrics == o.data[1].results
        limited == Slice(metrics, MinOrDefault(inp.limit, 100, 1000))
    IN  ToolReply(FALSE, JsonText(
            [query |-> IF Truthy(inp.query) THEN inp.query.v ELSE "all",
             total |-> Len(metrics), returned |-> Len(limited), metrics |-> limited]))

handleSearchLogs(inp) ==
    LET from == parseMsTimestamp(inp.from)
        to == parseMsTimestamp(inp.to)
    IN  IF ~from.ok THEN Reply(CatchFormatted(from.err))
        ELSE IF ~to.ok THEN Reply(CatchFormatted(to.err))
        ELSE IF from.v >= to.v THEN Reply(RangeReply)
        ELSE Client("searchLogs",
                    [filter |-> IF Truthy(inp.filter) THEN inp.filter.v ELSE "",
                     from |-> from.v, to |-> to.v,
                     pageSize |-> Num(MinOrDefault(inp.limit, 100, 100))])

handleSearchLogsFinish(inp, o) ==
    IF o.error # Null
    THEN ErrorReply("Error searching logs: "
                    \o formatToolError(o.error[1].message, o.error[1].statusCode))
    ELSE
    LET logs == o.data[1].data
    IN  ToolReply(FALSE, JsonText(
            [filter |-> IF Truthy(inp.filter) THEN inp.filter.v ELSE "all",
             timeRange |-> TimeRange(parseMsTimestamp(inp.from).v,
                                     parseMsTimestamp(inp.to).v),
             logsCount |-> Len(logs),
             logs |-> [i \in 1..Len(logs) |-> [timestamp |-> logs[i].timestamp]],
             has_more |-> FALSE, next_cursor |-> Null]))

handleGetLogDetails(inp) ==
    IF NotNonEmptyString(inp.logId)
    THEN Reply(ErrorReply("Error: logId must be a non-empty string"))
    ELSE Client("getLogDetails", [logId |-> inp.logId])

\* with data null, reading data.timestamp throws and the catch block replies
handleGetLogDetailsFinish(inp, o) ==
    IF o.error # Null
    THEN ErrorReply("Error retrieving log details: "
                    \o formatToolError(o.error[1].message, o.error[1].statusCode))
    ELSE IF o.data = Null
    THEN CatchFormatted(Error("Cannot read properties of null (reading 'timestamp')", Null))
    ELSE ToolReply(FALSE, JsonText(
             [logId |-> inp.logId.v, timestamp |-> o.data[1].timestamp]))

handleAggregateLogs(inp) ==
    LET from == parseMsTimestamp(inp.from)
        to == parseMsTimestamp(inp.to)
    IN  IF ~from.ok THEN Reply(CatchFormatted(from.err))
        ELSE IF ~to.ok THEN Reply(CatchFormatted(to.err))
        ELSE IF from.v >= to.v THEN Reply(RangeReply)
        ELSE IF NotNonEmptyString(inp.aggregationType)
        THEN Reply(ErrorReply("Error: aggregationType must be one of: "
                              \o "count, avg, percentile, min, max, sum"))
        ELSE Client("aggregateLogs",
                    [filter |-> IF Truthy(inp.filter) THEN inp.filter.v ELSE "",
                     from |-> from.v, to |-> to.v,
                     aggregationType |-> inp.aggregationType])

handleAggregateLogsFinish(inp, o) ==
    IF o.error # Null
    THEN ErrorReply("Error aggregating logs: "
                    \o formatToolError(o.error[1].message, o.error[1].statusCode))
    ELSE ToolReply(FALSE, JsonText(
             [aggregationType |-> inp.aggregationType.v,
              filter |-> IF Truthy(inp.filter) THEN inp.filter.v ELSE "all",
              timeRange |-> TimeRange(parseMsTimestamp(inp.from).v,
                                      parseMsTimestamp(inp.to).v),
              result |-> o.data[1]]))

validPriorities == {"low", "normal", "high"}

\* the query handed to searchEvents: input.query with the priority appended
EventsQuery(inp) ==
    LET query == IF Truthy(inp.query) THEN inp.query.v ELSE ""
    IN  IF ~Truthy(inp.priority) THEN query
        ELSE IF query # "" THEN query \o " priority:" \o inp.priority.v
        ELSE "priority:" \o inp.priority.v

handleSearchEvents(inp) ==
    LET from == parseTimestamp(inp.from)
        to == parseTimestamp(inp.to)
    IN  IF ~from.ok THEN Reply(CatchFormatted(from.err))
        ELSE IF ~to.ok THEN Reply(CatchFormatted(to.err))
        ELSE IF from.v >= to.v THEN Reply(RangeReply)
        ELSE IF Truthy(inp.priority)
                /\ ~(inp.priority.t = "string" /\ inp.priority.v \in validPriorities)
        THEN Reply(ErrorReply("Error: priority must be one of: " \o "low, normal, high"))
        ELSE Client("searchEvents",
                    [query |-> EventsQuery(inp), from |-> from.v, to |-> to.v,
                     options |-> [pageSize |-> Undef]])

handleSearchEventsFinish(inp, o) ==
    IF o.error # Null
    THEN ErrorReply("Error searching events: "
                    \o formatToolError(o.error[1].message, o.error[1].statusCode))
    ELSE
    LET events == o.data[1].events
        query == EventsQuery(inp)
    IN  ToolReply(FALSE, JsonText(
            [query |-> IF query # "" THEN query ELSE "all",
             priority |-> IF Truthy(inp.priority) THEN inp.priority.v ELSE "all",
             timeRange |-> TimeRange(parseTimestamp(inp.from).v * 1000,
                                     parseTimestamp(inp.to).v * 1000),
             eventsCount |-> Len(events),
             events |-> Slice(events, 50)]))

\* a string ID that parseInt can read is replaced by its number
NumericId(id) ==
    IF id.t = "string" /\ ParseInt(id.v) # Null THEN Num(ParseInt(id.v)[1]) ELSE id

handleGetEventDetails(inp) ==
    IF MissingUnlessZero(inp.eventId)
    THEN Reply(ErrorReply("Error: eventId must be a valid event identifier"))
    ELSE Client("getEventDetails", [eventId |-> NumericId(inp.eventId)])

handleGetEventDetailsFinish(inp, o) ==
    IF o.error # Null
    THEN ErrorReply("Error retrieving event details: "
                    \o formatToolError(o.error[1].message, o.error[1].statusCode))
    ELSE ToolReply(FALSE, JsonText([eventId |-> inp.eventId, details |-> o.data[1]]))

validStatuses == {"triggered", "OK", "degraded"}

handleListMonitors(inp) ==
    IF Truthy(inp.status) /\ ~(inp.status.t = "string" /\ inp.status.v \in validStatuses)
    THEN Reply(ErrorReply("Error: status must be one of: " \o "triggered, OK, degraded"))
    ELSE Client("listMonitors",
                [filters |->
                    [status |-> IF Truthy(inp.status) THEN inp.status ELSE Undef,
                     tags |-> IF Truthy(inp.tags) /\ inp.tags.t = "array"
                                 /\ Len(inp.tags.q) > 0
                              THEN inp.tags ELSE Undef,
                     name |-> Undef, monitorType |-> Undef]])

handleListMonitorsFinish(inp, o) ==
    IF o.error # Null
    THEN ErrorReply("Error listing monitors: " \o o.error[1].message)
    ELSE ToolReply(FALSE, JsonText(
             [filters |-> [status |-> IF Truthy(inp.status) THEN inp.status.v ELSE "any",
                           tags |-> IF Truthy(inp.tags) THEN inp.tags ELSE Arr(<<>>)],
              monitorsCount |-> Len(o.data[1]),
              monitors |-> o.data[1]]))

handleGetMonitorStatus(inp) ==
    IF MissingUnlessZero(inp.monitorId)
    THEN Reply(ErrorReply("Error: monitorId must be a valid monitor identifier"))
    ELSE Client("getMonitorStatus", [monitorId |-> NumericId(inp.monitorId)])

handleGetMonitorStatusFinish(inp, o) ==
    IF o.error # Null
    THEN ErrorReply("Error retrieving monitor status: " \o o.error[1].message)
    ELSE ToolReply(FALSE, JsonText([monitorId |-> inp.monitorId, status |-> o.data[1]]))

handleSearchMonitors(inp) ==
    IF NotNonEmptyString(inp.query)
    THEN Reply(ErrorReply("Error: query must be a non-empty string"))
    ELSE Client("searchMonitors", [query |-> inp.query])

handleSearchMonitorsFinish(inp, o) ==
    IF o.error # Null
    THEN ErrorReply("Error searching monitors: " \o o.error[1].message)
    ELSE
    LET all == o.data[1].monitors
        wanted == IF Truthy(inp.tags) /\ inp.tags.t = "array" /\ Len(inp.tags.q) > 0
                  THEN inp.tags.q ELSE <<>>
        matching == SelectSeq(all, LAMBDA m :
                       \A i \in 1..Len(wanted) :
                           \E j \in 1..Len(m.tags) : Str(m.tags[j]) = wanted[i])
    IN  ToolReply(FALSE, JsonText(
            [query |-> inp.query.v,
             tags |-> IF Truthy(inp.tags) THEN inp.tags ELSE Arr(<<>>),
             monitorsCount |-> Len(matching), monitors |-> matching]))

ServicesHandleGetServiceDependencies(inp) ==
    IF NotNonEmptyString(inp.env)
    THEN Reply(ErrorReply("Error: env must be a non-empty string"))
    ELSE Client("ServicesGetServiceDependencies",
                [env |-> inp.env, serviceName |-> inp.serviceName])

ServicesHandleGetServiceDependenciesFinish(inp, o) ==
    IF o.error # Null
    THEN ErrorReply("Error retrieving service dependencies: " \o o.error[1].message)
    ELSE
    LET data == o.data[1]
        name == IF Truthy(inp.serviceName) THEN TemplateString(inp.serviceName) ELSE "all"
    IN  ToolReply(FALSE, JsonText(
            [service |-> name, environment |-> inp.env.v, serviceName |-> name,
             serviceCount |-> Len(data.services),
             dependencyCount |-> Len(data.dependencies),
             message |-> data.message,
             services |-> Slice(data.services, 50),
             dependencies |-> Slice(data.dependencies, 100)]))

handleGetServiceDependenciesMultiEnv(inp) ==
    IF inp.envs.t # "array" \/ Len(inp.envs.q) = 0
    THEN Reply(ErrorReply("Error: envs must be a non-empty array of strings"))
    ELSE Client("getServiceDependenciesMultiEnv", [envs |-> inp.envs])

handleGetServiceDependenciesMultiEnvFinish(inp, o) ==
    IF o.error # Null
    THEN ErrorReply("Error retrieving service dependencies: " \o o.error[1].message)
    ELSE
    LET data == o.data[1]
        summary(env) ==
            IF data[env].error # Null
            THEN [status |-> "error", message |-> data[env].error[1].message]
            ELSE [status |-> "success",
                  serviceCount |-> Len(data[env].data[1].services),
                  dependencyCount |-> Len(data[env].data[1].dependencies),
                  services |-> Slice(data[env].data[1].services, 20)]
    IN  ToolReply(FALSE, JsonText(
            [environments |-> inp.envs,
             results |-> [env \in DOMAIN data |-> summary(env)]]))

-----------------------------------------------------------------------------
(* MonitorsClient: the lookups by monitor ID that no tool calls *)

getMonitorDowntime(a) ==
    IF MissingUnlessZero(a.monitorId)
    THEN Ret(Fail(DatadogClientError("Monitor ID is required")))
    ELSE Await(<<VCall("monitorsApi.getMonitor", [monitorId |-> a.monitorId])>>,
               "get", Null)

getMonitorDowntimeResume(a, st, lc, r) ==
    IF r.ok THEN Ret(Ok(r.resp)) ELSE CatchCoalesce(r.err)

getMonitor(a) ==
    IF MissingUnlessZero(a.monitorId)
    THEN Ret(Fail(DatadogClientError("Monitor ID is required")))
    ELSE Await(<<VCall("monitorsApi.getMonitor", [monitorId |-> a.monitorId])>>,
               "get", Null)

getMonitorResume(a, st, lc, r) ==
    IF r.ok THEN Ret(Ok(r.resp)) ELSE CatchCoalesce(r.err)

\* every character of str is a decimal digit
IsDigits(str) ==
    Len(str) > 0 /\ \A i \in 1..Len(str) : DigitValue(SubSeq(str, i, i)) >= 0

\* Number(x) for a number or a string: Null for NaN
ToNumber(x) ==
    IF x.t = "number" THEN Some(x.n)
    ELSE IF x.t = "string"
    THEN LET str == Trim(x.v)
         IN  IF str = "" THEN Some(0)
             ELSE IF IsDigits(str) THEN Some(LeadingDigits(str, 0))
             ELSE IF SubSeq(str, 1, 1) = "-" /\ IsDigits(SubSeq(str, 2, Len(str)))
             THEN Some(0 - LeadingDigits(SubSeq(str, 2, Len(str)), 0))
             ELSE Null
    ELSE Null

\* monitorId !== 0 && (monitorId == null || monitorId === "")
NullOrEmpty(id) == IsNullish(id) \/ (id.t = "string" /\ id.v = "")

getMonitorGroups(a) ==
    IF NullOrEmpty(a.monitorId)
    THEN Ret(Fail(DatadogClientError("Monitor ID is required")))
    ELSE
    LET id == ToNumber(a.monitorId)
    IN  IF id = Null \/ id[1] < 0
        THEN Ret(Fail(DatadogClientError("Monitor ID must be a non-negative number")))
        ELSE Await(<<VCall("monitorsApi.searchMonitorGroups",
                           [query |-> "monitor_id:" \o ToString(id[1])])>>,
                   "search", Null)

getMonitorGroupsResume(a, st, lc, r) ==
    IF r.ok THEN Ret(Ok(r.resp)) ELSE CatchCoalesce(r.err)

-----------------------------------------------------------------------------
(* Dispatch: a client method's first segment and its continuation *)

ClientStart(m, a) ==
    CASE m = "queryTraces" -> queryTraces(a)
      [] m = "getServiceHealth" -> getServiceHealth(a)
      [] m = "ApmGetServiceDependencies" -> ApmGetServiceDependencies(a)
      [] m = "queryMetrics" -> queryMetrics(a)
      [] m = "getMetricMetadata" -> getMetricMetadata(a)
      [] m = "listMetrics" -> listMetrics(a)
      [] m = "searchLogs" -> searchLogs(a)
      [] m = "getLogDetails" -> getLogDetails(a)
      [] m = "aggregateLogs" -> aggregateLogs(a)
      [] m = "searchEvents" -> searchEvents(a)
      [] m = "getEventDetails" -> getEventDetails(a)
      [] m = "getMonitorEvents" -> getMonitorEvents(a)
      [] m = "searchEventsByAlertType" -> searchEventsByAlertType(a)
      [] m = "searchEventsByTags" -> searchEventsByTags(a)
      [] m = "listMonitors" -> listMonitors(a)
      [] m = "getMonitorStatus" -> getMonitorStatus(a)
      [] m = "searchMonitors" -> searchMonitors(a)
      [] m = "getMonitorDowntime" -> getMonitorDowntime(a)
      [] m = "getMonitor" -> getMonitor(a)
      [] m = "getMonitorGroups" -> getMonitorGroups(a)
      [] m = "ServicesGetServiceDependencies" -> ServicesGetServiceDependencies(a)
      [] m = "getServiceDependenciesMultiEnv" -> getServiceDependenciesMultiEnv(a)

ClientResume(m, a, st, lc, r) ==
    CASE m = "queryTraces" -> queryTracesResume(a, st, lc, r)
      [] m = "getServiceHealth" -> getServiceHealthResume(a, st, lc, r)
      [] m = "ApmGetServiceDependencies" -> ApmGetServiceDependenciesResume(a, st, lc, r)
      [] m = "queryMetrics" -> queryMetricsResume(a, st, lc, r)
      [] m = "getMetricMetadata" -> getMetricMetadataResume(a, st, lc, r)
      [] m = "listMetrics" -> listMetricsResume(a, st, lc, r)
      [] m = "searchLogs" -> searchLogsResume(a, st, lc, r)
      [] m = "getLogDetails" -> getLogDetailsResume(a, st, lc, r)
      [] m = "aggregateLogs" -> aggregateLogsResume(a, st, lc, r)
      [] m = "searchEvents" -> searchEventsResume(a, st, lc, r)
      [] m = "getEventDetails" -> getEventDetailsResume(a, st, lc, r)
      [] m \in {"getMonitorEvents", "searchEventsByAlertType", "searchEventsByTags"}
         -> DelegateResume(a, st, lc, r)
      [] m = "listMonitors" -> listMonitorsResume(a, st, lc, r)
      [] m = "getMonitorStatus" -> getMonitorStatusResume(a, st, lc, r)
      [] m = "searchMonitors" -> searchMonitorsResume(a, st, lc, r)
      [] m = "getMonitorDowntime" -> getMonitorDowntimeResume(a, st, lc, r)
      [] m = "getMonitor" -> getMonitorResume(a, st, lc, r)
      [] m = "getMonitorGroups" -> getMonitorGroupsResume(a, st, lc, r)
      [] m = "ServicesGetServiceDependencies"
         -> ServicesGetServiceDependenciesResume(a, st, lc, r)
      [] m = "getServiceDependenciesMultiEnv"
         -> getServiceDependenciesMultiEnvResume(a, st, lc, r)

(* Dispatch: a tool handler's segment before its client call, its segment
   after the client's outcome, and its catch block *)

ToolStart(h, inp) ==
    CASE h = "handleQueryTraces" -> handleQueryTraces(inp)
      [] h = "handleGetServiceHealth" -> handleGetServiceHealth(inp)
      [] h = "ApmHandleGetServiceDependencies" -> ApmHandleGetServiceDependencies(inp)
      [] h = "handleQueryMetrics" -> handleQueryMetrics(inp)
      [] h = "handleGetMetricMetadata" -> handleGetMetricMetadata(inp)
      [] h = "handleListMetrics" -> handleListMetrics(inp)
      [] h = "handleSearchLogs" -> handleSearchLogs(inp)
      [] h = "handleGetLogDetails" -> handleGetLogDetails(inp)
      [] h = "handleAggregateLogs" -> handleAggregateLogs(inp)
      [] h = "handleSearchEvents" -> handleSearchEvents(inp)
      [] h = "handleGetEventDetails" -> handleGetEventDetails(inp)
      [] h = "handleListMonitors" -> handleListMonitors(inp)
      [] h = "handleGetMonitorStatus" -> handleGetMonitorStatus(inp)
      [] h = "handleSearchMonitors" -> handleSearchMonitors(inp)
      [] h = "ServicesHandleGetServiceDependencies"
         -> ServicesHandleGetServiceDependencies(inp)
      [] h = "handleGetServiceDependenciesMultiEnv"
         -> handleGetServiceDependenciesMultiEnv(inp)

ToolFinish(h, inp, o) ==
    CASE h = "handleQueryTraces" -> handleQueryTracesFinish(inp, o)
      [] h = "handleGetServiceHealth" -> handleGetServiceHealthFinish(inp, o)
      [] h = "ApmHandleGetServiceDependencies"
         -> ApmHandleGetServiceDependenciesFinish(inp, o)
      [] h = "handleQueryMetrics" -> handleQueryMetricsFinish(inp, o)
      [] h = "handleGetMetricMetadata" -> handleGetMetricMetadataFinish(inp, o)
      [] h = "handleListMetrics" -> handleListMetricsFinish(inp, o)
      [] h = "handleSearchLogs" -> handleSearchLogsFinish(inp, o)
      [] h = "handleGetLogDetails" -> handleGetLogDetailsFinish(inp, o)
      [] h = "handleAggregateLogs" -> handleAggregateLogsFinish(inp, o)
      [] h = "handleSearchEvents" -> handleSearchEventsFinish(inp, o)
      [] h = "handleGetEventDetails" -> handleGetEventDetailsFinish(inp, o)
      [] h = "handleListMonitors" -> handleListMonitorsFinish(inp, o)
      [] h = "handleGetMonitorStatus" -> handleGetMonitorStatusFinish(inp, o)
      [] h = "handleSearchMonitors" -> handleSearchMonitorsFinish(inp, o)
      [] h = "ServicesHandleGetServiceDependencies"
         -> ServicesHandleGetServiceDependenciesFinish(inp, o)
      [] h = "handleGetServiceDependenciesMultiEnv"
         -> handleGetServiceDependenciesMultiEnvFinish(inp, o)

\* the handlers of the logs and events tools format the caught error
FormattingHandlers ==
    {"handleSearchLogs", "handleGetLogDetails", "handleAggregateLogs",
     "handleSearchEvents", "handleGetEventDetails"}

\* the catch block around the whole body of handler h
ToolCatch(h, error) ==
    IF h \in FormattingHandlers THEN CatchFormatted(error) ELSE CatchPlain(error)

\* the first property each handler reads from its input
FirstProperty(h) ==
    CASE h \in {"handleQueryTraces", "handleQueryMetrics", "handleSearchLogs",
                "handleAggregateLogs", "handleSearchEvents"} -> "from"
      [] h \in {"handleGetServiceHealth", "ApmHandleGetServiceDependencies"}
         -> "serviceName"
      [] h = "handleGetMetricMetadata" -> "metricName"
      [] h \in {"handleListMetrics", "handleSearchMonitors"} -> "query"
      [] h = "handleGetLogDetails" -> "logId"
      [] h = "handleGetEventDetails" -> "eventId"
      [] h = "handleListMonitors" -> "status"
      [] h = "handleGetMonitorStatus" -> "monitorId"
      [] h = "ServicesHandleGetServiceDependencies" -> "env"
      [] h = "handleGetServiceDependenciesMultiEnv" -> "envs"

-----------------------------------------------------------------------------
(* The vendor SDK and the HTTP endpoint: what an awaited call can settle to *)

\* spans without an attributes object, whose two durations are one property,
\* and spans with one that holds no duration while the span itself does
SpanValues ==
    {[trace_id |-> t, duration |-> d, spanDuration |-> d] :
        t \in {"t1", "t2"}, d \in {Null, Some(1), Some(2)}}
    \cup {[trace_id |-> t, duration |-> Null, spanDuration |-> Some(3)] : t \in {"t1", "t2"}}

SpanLists == UNION {[1..n -> SpanValues] : n \in 0..MaxSpans}

SeriesA == [scope |-> "env:prod", pointlist |-> 1]
SeriesB == [scope |-> "env:dev", pointlist |-> 2]

LogA == [id |-> "abc-1", timestamp |-> 1000]
LogB == [id |-> "abc-2", timestamp |-> 2000]

\* the body of GET /service_dependencies: one entry per service
RawAll ==
    <<[name |-> "api", hasCalls |-> TRUE, calls |-> <<"db">>],
      [name |-> "db", hasCalls |-> FALSE, calls |-> <<>>]>>

\* the body of GET /service_dependencies/{service}
RawOne == [name |-> "api", calls |-> <<"db">>, called_by |-> <<"web", "db">>]

HttpResponse(ok, status, statusText, body) ==
    [ok |-> ok, status |-> status, statusText |-> statusText, body |-> body]

\* the values call c, issued by method m, can resolve with.  getServiceHealth
\* issues nine queries at once, so each of them gets a single answer here
VendorResponses(m, c) ==
    CASE c.api = "spansApi.listSpansGet" -> {[data |-> q] : q \in SpanLists}
      [] c.api = "metricsApi.queryMetrics" ->
             IF m = "getServiceHealth" THEN {[series |-> <<SeriesA>>]}
             ELSE {[series |-> q] : q \in {<<>>, <<SeriesA>>, <<SeriesA, SeriesB>>}}
      [] c.api = "metricsApi.getMetricMetadata" -> {[type |-> "gauge"]}
      [] c.api = "metricsApi.listMetrics" ->
             {[results |-> q] : q \in {<<>>, <<"cpu.user", "cpu.idle">>}}
      [] c.api = "logsApi.listLogs" ->
             {[data |-> q] : q \in {<<>>, <<LogA>>, <<LogA, LogB>>}}
      [] c.api = "logsApi.aggregateLogs" -> {[buckets |-> <<>>]}
      [] c.api = "eventsApi.listEvents" ->
             {[events |-> q] : q \in {<<>>, <<[id |-> 7, title |-> "deploy"]>>}}
      [] c.api = "eventsApi.getEvent" -> {[event |-> [id |-> 7, title |-> "deploy"]]}
      [] c.api = "monitorsApi.listMonitors" ->
             {<<>>, <<[id |-> 7, name |-> "cpu", tags |-> <<"team:a">>]>>,
              [i \in 1..MaxMonitors |-> [id |-> i, name |-> "cpu", tags |-> <<>>]]}
      [] c.api = "monitorsApi.getMonitor" -> {[id |-> 7, overall_state |-> "OK"]}
      [] c.api = "monitorsApi.searchMonitorGroups" ->
             {[groups |-> q] : q \in {<<>>, <<[group |-> "host:a", status |-> "OK"]>>}}
      [] c.api = "monitorsApi.searchMonitors" ->
             {[monitors |-> q] :
                 q \in {<<>>, <<[id |-> 7, tags |-> <<"team:a">>],
                                [id |-> 8, tags |-> <<>>]>>}}
      [] c.api = "fetch" ->
             {HttpResponse(TRUE, 200, "OK",
                           IF c.params.service # Null THEN RawOne ELSE RawAll),
              HttpResponse(FALSE, 403, "Forbidden", <<>>),
              HttpResponse(FALSE, 500, "Internal Server Error", <<>>)}

\* the errors call c, issued by method m, can reject with
VendorErrors(m, c) ==
    IF c.api = "fetch" THEN {Error("fetch failed", Null)}
    ELSE IF m = "getServiceHealth" THEN {Error("Unauthorized", Some(401))}
    ELSE {Error("Unauthorized", Some(401)), Error("socket hang up", Null)}

-----------------------------------------------------------------------------
(* The callers: arguments of direct client calls and inputs of tool calls *)

\* start and end times of direct client calls
Times == {t * 1000 : t \in 1..MaxT}

Methods ==
    {"queryTraces", "getServiceHealth", "ApmGetServiceDependencies", "queryMetrics",
     "getMetricMetadata", "listMetrics", "searchLogs", "getLogDetails",
     "aggregateLogs", "searchEvents", "getEventDetails", "getMonitorEvents",
     "searchEventsByAlertType", "searchEventsByTags", "listMonitors",
     "getMonitorStatus", "searchMonitors", "ServicesGetServiceDependencies",
     "getServiceDependenciesMultiEnv", "getMonitorDowntime", "getMonitor",
     "getMonitorGroups"}

PageSizes == {Undef, Num(50), Num(1000)}

\* monitor IDs a caller may hand over: absent, empty, zero, a number, a
\* negative number, numeric and non-numeric text, text carrying query syntax
MonitorIds ==
    {Undef, Str(""), Str(" "), Str("7"), Str("abc"), Str("7 OR env:prod"),
     Num(0), Num(7), Num(0 - 1)}

ClientArgs(m) ==
    CASE m = "queryTraces" ->
             [filter : {"", " ", "env:prod"}, from : Times, to : Times,
              options : [serviceName : {Undef, Str("api")}, pageSize : PageSizes]]
      [] m = "getServiceHealth" ->
             [serviceName : {Undef, Str("api")}, from : Times, to : Times,
              options : [env : {Undef, Str("prod")}]]
      [] m = "ApmGetServiceDependencies" ->
             [serviceName : {Undef, Str("api")}, from : Times, to : Times]
      [] m = "queryMetrics" ->
             [query : {Str(""), Str("avg:cpu{*}")}, from : Times, to : Times]
      [] m = "getMetricMetadata" -> [metricName : {Undef, Str("cpu")}]
      [] m = "listMetrics" -> [query : {"", "cpu"}]
      [] m = "searchLogs" ->
             [filter : {"", "env:prod"}, from : Times, to : Times,
              pageSize : PageSizes \cup {Num(0)}]
      [] m = "getLogDetails" ->
             [logId : {Undef, Num(1), Str(" "), Str("a c"), Str("abc-1")}]
      [] m = "aggregateLogs" ->
             [filter : {"", "env:prod"}, from : Times, to : Times,
              aggregationType : {Undef, Str("count"), Str("avg")}]
      [] m = "searchEvents" ->
             [query : {"", "env:prod"}, from : Times, to : Times,
              options : [pageSize : PageSizes]]
      [] m = "getEventDetails" -> [eventId : {Undef, Str(""), Num(0), Num(7)}]
      [] m = "getMonitorEvents" ->
             [monitorId : MonitorIds, from : Times, to : Times]
      [] m = "searchEventsByAlertType" ->
             [alertType : {Undef, Str("error")}, from : Times, to : Times]
      [] m = "searchEventsByTags" ->
             [tags : {Undef, Arr(<<>>), Arr(<<Str("env:prod")>>), Arr(<<Str(" ")>>),
                      Arr(<<Str("env:prod"), Str("a and b")>>),
                      Arr(<<Str("a OR "), Str("env:prod")>>)},
              from : Times, to : Times]
      [] m = "listMonitors" ->
             [filters : [status : {Undef, Str("OK")},
                         tags : {Undef, Arr(<<Str("team:a"), Str("env:prod")>>)},
                         name : {Undef, Str("cpu")},
                         monitorType : {Undef, Str("metric")}]]
      [] m \in {"getMonitorStatus", "getMonitorDowntime", "getMonitor",
                 "getMonitorGroups"} -> [monitorId : MonitorIds]
      [] m = "searchMonitors" -> [query : {Undef, Str("cpu")}]
      [] m = "ServicesGetServiceDependencies" ->
             [env : {Undef, Str("prod")}, serviceName : {Undef, Str("api")}]
      [] m = "getServiceDependenciesMultiEnv" ->
             [envs : {Undef, Arr(<<>>), Arr(<<Str("prod")>>),
                      Arr(<<Str("prod"), Str("dev")>>)}]

Handlers ==
    {"handleQueryTraces", "handleGetServiceHealth", "ApmHandleGetServiceDependencies",
     "handleQueryMetrics", "handleGetMetricMetadata", "handleListMetrics",
     "handleSearchLogs", "handleGetLogDetails", "handleAggregateLogs",
     "handleSearchEvents", "handleGetEventDetails", "handleListMonitors",
     "handleGetMonitorStatus", "handleSearchMonitors",
     "ServicesHandleGetServiceDependencies", "handleGetServiceDependenciesMultiEnv"}

\* timestamps a tool caller supplies: epoch seconds, ISO-8601, junk, nothing
ToolTimes ==
    {Num(t) : t \in 1..MaxT} \cup {Str("1970-01-01T00:00:02Z"), Str("abc"), Undef}

\* the argument objects handler h is called with; the request may also
\* carry no arguments at all, which ToolCall represents by Undef
ToolInputs(h) ==
    CASE h = "handleQueryTraces" ->
             [from : ToolTimes, to : ToolTimes, serviceName : {Undef, Str("api")},
              filter : {Undef, Str("env:prod")}, limit : {Undef, Num(1000)}]
      [] h \in {"handleGetServiceHealth"} ->
             [from : ToolTimes, to : ToolTimes, serviceName : {Undef, Str("api")},
              env : {Undef, Str("prod")}]
      [] h = "ApmHandleGetServiceDependencies" ->
             [from : ToolTimes, to : ToolTimes, serviceName : {Undef, Str("api")}]
      [] h = "handleQueryMetrics" ->
             [from : ToolTimes, to : ToolTimes,
              metricName : {Undef, Str(" "), Str("cpu")},
              filter : {Undef, Str("env:prod"), Str("{env:prod}"), Str("env:prod}")}]
      [] h = "handleGetMetricMetadata" -> [metricName : {Undef, Str("cpu")}]
      [] h = "handleListMetrics" ->
             [query : {Undef, Str("cpu")}, limit : {Undef, Num(1)}]
      [] h = "handleSearchLogs" ->
             [from : ToolTimes, to : ToolTimes, filter : {Undef, Str("env:prod")},
              limit : {Undef, Num(1000)}]
      [] h = "handleGetLogDetails" -> [logId : {Undef, Str("a c"), Str("abc-1")}]
      [] h = "handleAggregateLogs" ->
             [from : ToolTimes, to : ToolTimes, filter : {Undef, Str("env:prod")},
              aggregationType : {Undef, Str("count"), Str("avg")}]
      [] h = "handleSearchEvents" ->
             [from : ToolTimes, to : ToolTimes, query : {Undef, Str("env:prod")},
              priority : {Undef, Str("high"), Str("urgent")}]
      [] h = "handleGetEventDetails" ->
             [eventId : {Undef, Num(0), Num(7), Str("7"), Str("abc")}]
      [] h = "handleListMonitors" ->
             [status : {Undef, Str("OK"), Str("alert")},
              tags : {Undef, Arr(<<>>), Arr(<<Str("team:a")>>)}]
      [] h = "handleGetMonitorStatus" ->
             [monitorId : {Undef, Str(""), Num(0), Num(7), Str("7"), Str("abc")}]
      [] h = "handleSearchMonitors" ->
             [query : {Undef, Str("cpu")}, tags : {Undef, Arr(<<Str("team:a")>>)}]
      [] h = "ServicesHandleGetServiceDependencies" ->
             [env : {Undef, Str("prod")}, serviceName : {Undef, Str("api")}]
      [] h = "handleGetServiceDependenciesMultiEnv" ->
             [envs : {Undef, Arr(<<>>), Arr(<<Str("prod"), Str("dev")>>)}]

\* handler h called with arguments inp: a missing arguments object makes the
\* first property read throw inside the handler's try block
ToolCall(h, inp) ==
    IF inp = Undef THEN Reply(ToolCatch(h, TypeError(FirstProperty(h))))
    ELSE ToolStart(h, inp)

-----------------------------------------------------------------------------
(* The server: the tool registry and the lookup of a handler by name *)

\* allTools of registerTools: the tools of the metrics, logs, events,
\* monitors, APM and services modules, in that order
allTools ==
    <<[name |-> "query_metrics", handler |-> "handleQueryMetrics"],
      [name |-> "get_metric_metadata", handler |-> "handleGetMetricMetadata"],
      [name |-> "list_metrics", handler |-> "handleListMetrics"],
      [name |-> "search_logs", handler |-> "handleSearchLogs"],
      [name |-> "get_log_details", handler |-> "handleGetLogDetails"],
      [name |-> "aggregate_logs", handler |-> "handleAggregateLogs"],
      [name |-> "search_events", handler |-> "handleSearchEvents"],
      [name |-> "get_event_details", handler |-> "handleGetEventDetails"],
      [name |-> "list_monitors", handler |-> "handleListMonitors"],
      [name |-> "get_monitor_status", handler |-> "handleGetMonitorStatus"],
      [name |-> "search_monitors", handler |-> "handleSearchMonitors"],
      [name |-> "query_traces", handler |-> "handleQueryTraces"],
      [name |-> "get_service_health", handler |-> "handleGetServiceHealth"],
      [name |-> "get_service_dependencies", handler |-> "ApmHandleGetServiceDependencies"],
      [name |-> "get_service_dependencies",
       handler |-> "ServicesHandleGetServiceDependencies"],
      [name |-> "get_service_dependencies_multi_env",
       handler |-> "handleGetServiceDependenciesMultiEnv"]>>

\* toolMap after the loop of registerTools has run over the first n tools:
\* toolMap.set(tool.name, handler) replaces an entry of the same name
RECURSIVE toolMap(_)
toolMap(n) ==
    IF n = 0 THEN <<>>
    ELSE LET before == toolMap(n - 1)
             tool_n == allTools[n]
         IN  [k \in DOMAIN before \cup {tool_n.name} |->
                 IF k = tool_n.name THEN tool_n.handler ELSE before[k]]

\* a lookup that answers with the first registered handler when the name is
\* not in the map
toolHandlersGetOrFirst(name) ==
    LET toolHandlers == toolMap(Len(allTools))
    IN  IF name \in DOMAIN toolHandlers THEN Some(toolHandlers[name])
        ELSE Some(allTools[1].handler)

\* toolHandlers.get(name): Null for undefined
toolHandlersGet(name) ==
    LET toolHandlers == toolMap(Len(allTools))
    IN  IF name \in DOMAIN toolHandlers THEN Some(toolHandlers[name]) ELSE Null

\* the names tools/call requests carry: the registered ones, and ones that
\* no tool has
RequestNames == {allTools[i].name : i \in 1..Len(allTools)} \cup {"delete_monitor", ""}

-----------------------------------------------------------------------------
(* The state machine *)

Nothing == [k |-> "none"]

\* how a promise settled
Resolved(v) == [k |-> "ret", v |-> v]
Rejected(e) == [k |-> "rej", err |-> e]

\* the continuation of a handler without its try/catch: a rejection of the
\* client's promise rejects the handler's promise
HandlerSettleNoCatch(h, inp, res) ==
    IF res.k = "rej" THEN Rejected(res.err)
    ELSE Resolved(ToolFinish(h, inp, res.v))

\* the handler's continuation once the client's promise has settled: the
\* outcome goes to the rest of the try block, a rejection to the catch block
HandlerSettle(h, inp, res) ==
    IF res.k = "rej" THEN Resolved(ToolCatch(h, res.err))
    ELSE Resolved(ToolFinish(h, inp, res.v))

Init ==
    /\ pc = "idle"
    /\ tool = "none"
    /\ input = Undef
    /\ method = "none"
    /\ args = Undef
    /\ stage = ""
    /\ acc = Null
    /\ calls = <<>>
    /\ results = <<>>
    /\ result = Nothing
    /\ reply = Nothing
    /\ hintArgs = Null
    /\ formatted = Null
    /\ timeArg = Null
    /\ parsedTime = Null
    /\ request = Null
    /\ proc = "starting"
    /\ inv = <<>>

\* the effect of one segment of the client method on the state
Advance(step, issued) ==
    IF step.k = "call"
    THEN /\ pc' = "await"
         /\ stage' = step.stage
         /\ acc' = step.acc
         /\ calls' = issued \o step.cs
         /\ result' = result
    ELSE /\ pc' = "settled"
         /\ stage' = ""
         /\ acc' = Null
         /\ calls' = issued
         /\ result' = step

\* a caller invokes client method m directly
CallClient ==
    /\ proc = "running"
    /\ pc = "idle"
    /\ \E m \in Methods : \E a \in ClientArgs(m) :
          /\ method' = m
          /\ args' = a
          /\ Advance(ClientStart(m, a), <<>>)
    /\ UNCHANGED <<tool, input, results, reply, hintArgs, formatted, timeArg,
                   parsedTime, request, proc, inv>>

\* handler h starts on the arguments inp and runs to its first await or to
\* its reply
StartHandler(h, inp) ==
    LET s == ToolCall(h, inp)
    IN  /\ tool' = h
        /\ input' = inp
        /\ IF s.k = "reply"
           THEN /\ pc' = "done"
                /\ reply' = Resolved(s.v)
                /\ UNCHANGED <<method, args, stage, acc, calls, result>>
           ELSE /\ method' = s.method
                /\ args' = s.args
                /\ Advance(ClientStart(s.method, s.args), <<>>)
                /\ reply' = reply

\* a caller invokes handler h directly
InvokeTool ==
    /\ proc = "running"
    /\ pc = "idle"
    /\ \E h \in Handlers : \E inp \in ToolInputs(h) \cup {Undef} : StartHandler(h, inp)
    /\ UNCHANGED <<results, hintArgs, formatted, timeArg, parsedTime, request, proc, inv>>

\* the server's tools/call handler: the handler registered under the name
\* runs, and a name without one throws
CallTool ==
    /\ proc = "running"
    /\ pc = "idle"
    /\ \E name \in RequestNames :
          LET handler == toolHandlersGet(name)
          IN  /\ request' = Some(name)
              /\ IF handler = Null
                 THEN /\ pc' = "done"
                      /\ reply' = Rejected(Error("Tool not found: " \o name, Null))
                      /\ UNCHANGED <<tool, input, method, args, stage, acc, calls, result>>
                 ELSE \E inp \in ToolInputs(handler[1]) \cup {Undef} :
                         StartHandler(handler[1], inp)
    /\ UNCHANGED <<results, hintArgs, formatted, timeArg, parsedTime, proc, inv>>

\* main() resolves: the clients are built, the tools registered and the
\* transport connected
Start ==
    /\ proc = "starting"
    /\ proc' = "running"
    /\ UNCHANGED <<pc, tool, input, method, args, stage, acc, calls, results, result,
                   reply, hintArgs, formatted, timeArg, parsedTime, request, inv>>

\* main() rejects, on a bad configuration or a failed connect, and
\* main().catch ends the process
Fatal ==
    /\ proc = "starting"
    /\ proc' = "exited"
    /\ UNCHANGED <<pc, tool, input, method, args, stage, acc, calls, results, result,
                   reply, hintArgs, formatted, timeArg, parsedTime, request, inv>>

\* the oldest outstanding vendor call
Pending == calls[Len(results) + 1]

Settle(r) ==
    /\ results' = Append(results, r)
    /\ Advance(ClientResume(method, args, stage, acc, r), calls)
    /\ UNCHANGED <<tool, input, method, args, reply, hintArgs, formatted, timeArg,
                   parsedTime, request, proc, inv>>

VendorResolve ==
    /\ pc = "await"
    /\ \E resp \in VendorResponses(method, Pending) : Settle([ok |-> TRUE, resp |-> resp])

VendorReject ==
    /\ pc = "await"
    /\ \E err \in VendorErrors(method, Pending) : Settle([ok |-> FALSE, err |-> err])

\* the handler resumes after `await client.method(...)`
HandlerResume ==
    /\ pc = "settled"
    /\ tool # "none"
    /\ reply' = HandlerSettle(tool, input, result)
    /\ pc' = "done"
    /\ UNCHANGED <<tool, input, method, args, stage, acc, calls, results, result,
                   hintArgs, formatted, timeArg, parsedTime, request, proc, inv>>

\* the caller has its answer; the server is ready for the next request
Return ==
    /\ \/ pc = "done"
       \/ pc = "settled" /\ tool = "none"
    /\ pc' = "idle"
    /\ tool' = "none"
    /\ input' = Undef
    /\ method' = "none"
    /\ args' = Undef
    /\ stage' = ""
    /\ acc' = Null
    /\ calls' = <<>>
    /\ results' = <<>>
    /\ result' = Nothing
    /\ reply' = Nothing
    /\ request' = Null
    /\ UNCHANGED <<hintArgs, formatted, timeArg, parsedTime, proc, inv>>

Next ==
    \/ Start
    \/ Fatal
    \/ CallClient
    \/ InvokeTool
    \/ CallTool
    \/ VendorResolve
    \/ VendorReject
    \/ HandlerResume
    \/ Return

Spec == Init /\ [][Next]_vars

-----------------------------------------------------------------------------
(* formatToolError on its own: the inputs are drawn at the start *)

\* messages of the clients, the handlers and the vendor, an empty one, and
\* ones that several of the hint rules match at once
HintMessages ==
    {"", "Unauthorized", "HTTP 404: Not Found", "HTTP 429: Too Many Requests",
     StartBeforeEnd, "Error: Start time (from) must be before end time (to)",
     "from and to are required", "Invalid timestamp format: abc",
     "Invalid format: from must be before to", "Invalid log ID"}

\* status codes of errors: none, and the ones the vendor answers with
HintStatusCodes == {Null, Some(400), Some(401), Some(403), Some(404), Some(429), Some(500)}

FormatInit ==
    /\ pc = "idle"
    /\ tool = "none"
    /\ input = Undef
    /\ method = "none"
    /\ args = Undef
    /\ stage = ""
    /\ acc = Null
    /\ calls = <<>>
    /\ results = <<>>
    /\ result = Nothing
    /\ reply = Nothing
    /\ hintArgs \in {Some(a) : a \in [message : HintMessages, statusCode : HintStatusCodes]}
    /\ formatted = Null
    /\ timeArg = Null
    /\ parsedTime = Null
    /\ request = Null
    /\ proc = "starting"
    /\ inv = <<>>

\* a handler calls formatToolError(message, statusCode)
FormatError ==
    /\ formatted = Null
    /\ formatted' = Some(formatToolError(hintArgs[1].message, hintArgs[1].statusCode))
    /\ UNCHANGED <<pc, tool, input, method, args, stage, acc, calls, results, result,
                   reply, hintArgs, timeArg, parsedTime, request, proc, inv>>

FormatNext == FormatError

FormatSpec == FormatInit /\ [][FormatNext]_vars

-----------------------------------------------------------------------------
(* The timestamp parsers on their own: the input is drawn at the start *)

\* numbers of seconds and of milliseconds, on both sides of the threshold and
\* next to it
TimeNumbers ==
    {0, 1, 2, 999, 1000, 1500, 1999, 2000, MsThreshold - 1, MsThreshold,
     MsThreshold + 1, MsThreshold + 999, MsThreshold + 1000, 2 * MsThreshold}

\* the same as numbers and as strings of digits, ISO-8601 strings, and values
\* no parser reads
TimeValues ==
    {Num(n) : n \in TimeNumbers} \cup {Str(ToString(n)) : n \in TimeNumbers}
    \cup {Str(iso) : iso \in IsoStrings} \cup {Str("abc"), Str(""), Undef}

\* the parser of each domain's tools
Parsers == {"parseTimestamp", "parseEventsTimestamp", "parseLogsTimestamp",
            "parseApmTimestamp"}

ApplyParser(p, time, asSeconds) ==
    IF p \in {"parseTimestamp", "parseEventsTimestamp"} THEN parseTimestamp(time)
    ELSE parseApmTimestamp(time, asSeconds)

ParseInit ==
    /\ pc = "idle"
    /\ tool = "none"
    /\ input = Undef
    /\ method = "none"
    /\ args = Undef
    /\ stage = ""
    /\ acc = Null
    /\ calls = <<>>
    /\ results = <<>>
    /\ result = Nothing
    /\ reply = Nothing
    /\ hintArgs = Null
    /\ formatted = Null
    /\ timeArg \in {Some(x) : x \in TimeValues}
    /\ parsedTime = Null
    /\ request = Null
    /\ proc = "starting"
    /\ inv = <<>>

\* a tool hands the value to its parser; asSeconds is the second argument of
\* the logs and APM parsers, which the metrics and events parsers do not have
ParseTime ==
    /\ parsedTime = Null
    /\ \E p \in Parsers : \E asSeconds \in BOOLEAN :
          /\ p \in {"parseTimestamp", "parseEventsTimestamp"} => asSeconds
          /\ parsedTime' = Some([parser |-> p, asSeconds |-> asSeconds,
                                 r |-> ApplyParser(p, timeArg[1], asSeconds)])
    /\ UNCHANGED <<pc, tool, input, method, args, stage, acc, calls, results, result,
                   reply, hintArgs, formatted, timeArg, request, proc, inv>>

ParseNext == ParseTime

ParseSpec == ParseInit /\ [][ParseNext]_vars

-----------------------------------------------------------------------------
(* Two tool invocations side by side, interleaved at their awaits *)

\* an invocation that has not begun
InvIdle ==
    [pc |-> "idle", tool |-> "none", input |-> Undef, method |-> "none",
     args |-> Undef, stage |-> "", acc |-> Null, calls |-> <<>>, results |-> <<>>,
     result |-> Nothing, reply |-> Nothing]

\* the effect of one segment of the client method on invocation v
AdvanceInv(v, step, issued) ==
    IF step.k = "call"
    THEN [v EXCEPT !.pc = "await", !.stage = step.stage, !.acc = step.acc,
                   !.calls = issued \o step.cs]
    ELSE [v EXCEPT !.pc = "settled", !.stage = "", !.acc = Null, !.calls = issued,
                   !.result = step]

\* handler h starts on inp and runs to its first await or to its reply
BeginInv(h, inp) ==
    LET s == ToolCall(h, inp)
    IN  IF s.k = "reply"
        THEN [InvIdle EXCEPT !.pc = "done", !.tool = h, !.input = inp,
                             !.reply = Resolved(s.v)]
        ELSE AdvanceInv([InvIdle EXCEPT !.tool = h, !.input = inp,
                                        !.method = s.method, !.args = s.args],
                        ClientStart(s.method, s.args), <<>>)

\* the vendor settles the oldest outstanding call of invocation v with r
SettleInv(v, r) ==
    AdvanceInv([v EXCEPT !.results = Append(@, r)],
               ClientResume(v.method, v.args, v.stage, v.acc, r), v.calls)

\* the arguments as they would be if get_monitor_status kept them in a
\* variable of its module instead of its parameter: every invocation of it
\* reads what the first one stored
HandlerArgsShared(vs, i) ==
    IF vs[i].tool = "handleGetMonitorStatus" /\ vs[1].tool = vs[i].tool
    THEN vs[1].input ELSE vs[i].input

\* the arguments as they would be if query_metrics counted the requests of
\* the process and put the count into the filter it echoes
HandlerArgsCounted(vs, i) ==
    IF vs[i].tool = "handleQueryMetrics"
    THEN [vs[i].input EXCEPT !.filter = Str(IF i = 1 THEN "request 1" ELSE "request 2")]
    ELSE vs[i].input

\* the arguments handler i works on: `arguments: args` of its own request,
\* held by the closure of that request
HandlerArgs(vs, i) == vs[i].input

\* the tools and arguments of the invocations run side by side
ConcHandlers ==
    {"handleQueryTraces", "handleGetMonitorStatus", "handleQueryMetrics",
     "handleSearchLogs"}

ConcInputs(h) ==
    CASE h = "handleQueryTraces" ->
             [from : {Num(1)}, to : {Num(2)}, serviceName : {Undef, Str("api")},
              filter : {Undef}, limit : {Undef}]
      [] h = "handleQueryMetrics" ->
             [from : {Num(1)}, to : {Num(2)}, metricName : {Str("cpu")},
              filter : {Undef, Str("env:prod")}]
      [] h = "handleSearchLogs" ->
             [from : {Num(1)}, to : {Num(2)}, filter : {Undef, Str("env:prod")},
              limit : {Undef}]
      [] h = "handleGetMonitorStatus" -> [monitorId : {Undef, Num(7), Str("8")}]

\* what the vendor answers them with
ConcResponses(m, c) ==
    IF c.api = "spansApi.listSpansGet"
    THEN {[data |-> <<>>],
          [data |-> <<[trace_id |-> "t1", duration |-> Some(1), spanDuration |-> Some(1)]>>]}
    ELSE VendorResponses(m, c)

InvIds == {1, 2}

ConcInit ==
    /\ pc = "idle"
    /\ tool = "none"
    /\ input = Undef
    /\ method = "none"
    /\ args = Undef
    /\ stage = ""
    /\ acc = Null
    /\ calls = <<>>
    /\ results = <<>>
    /\ result = Nothing
    /\ reply = Nothing
    /\ hintArgs = Null
    /\ formatted = Null
    /\ timeArg = Null
    /\ parsedTime = Null
    /\ request = Null
    /\ proc = "running"
    /\ inv = [i \in InvIds |-> InvIdle]

ConcUnchanged ==
    UNCHANGED <<pc, tool, input, method, args, stage, acc, calls, results, result,
                reply, hintArgs, formatted, timeArg, parsedTime, request, proc>>

\* a request arrives while the other invocation may be at an await
ConcInvoke ==
    /\ \E i \in InvIds :
          /\ inv[i].pc = "idle"
          /\ \E h \in ConcHandlers : \E inp \in ConcInputs(h) :
                inv' = [inv EXCEPT ![i] = BeginInv(h, inp)]
    /\ ConcUnchanged

ConcVendorResolve ==
    /\ \E i \in InvIds :
          /\ inv[i].pc = "await"
          /\ \E resp \in ConcResponses(inv[i].method,
                                       inv[i].calls[Len(inv[i].results) + 1]) :
                inv' = [inv EXCEPT ![i] = SettleInv(inv[i], [ok |-> TRUE, resp |-> resp])]
    /\ ConcUnchanged

ConcVendorReject ==
    /\ \E i \in InvIds :
          /\ inv[i].pc = "await"
          /\ \E err \in VendorErrors(inv[i].method,
                                     inv[i].calls[Len(inv[i].results) + 1]) :
                inv' = [inv EXCEPT ![i] = SettleInv(inv[i], [ok |-> FALSE, err |-> err])]
    /\ ConcUnchanged

\* a handler resumes after `await client.method(...)`
ConcHandlerResume ==
    /\ \E i \in InvIds :
          /\ inv[i].pc = "settled"
          /\ inv' = [inv EXCEPT ![i] =
                        [inv[i] EXCEPT
                            !.pc = "done",
                            !.reply = HandlerSettle(inv[i].tool, HandlerArgs(inv, i),
                                                    inv[i].result)]]
    /\ ConcUnchanged

ConcNext ==
    \/ ConcInvoke
    \/ ConcVendorResolve
    \/ ConcVendorReject
    \/ ConcHandlerResume

ConcSpec == ConcInit /\ [][ConcNext]_vars

-----------------------------------------------------------------------------
(* Properties *)

\* the client method's promise has settled
ClientSettled == result.k # "none"

\* the client methods that take a time range
RangeMethods ==
    {"queryTraces", "getServiceHealth", "ApmGetServiceDependencies", "queryMetrics",
     "searchLogs", "aggregateLogs", "searchEvents", "getMonitorEvents",
     "searchEventsByAlertType", "searchEventsByTags"}

\* C1: every client method, whatever its arguments and however the vendor
\* calls it makes settle (the APM metrics-fallback call included), resolves to
\* an outcome: its promise never rejects.
C1_ClientNeverRejects == result.k # "rej"

\* C2: when queryTraces' span-listing call rejects and the metrics-fallback
\* call rejects too, queryTraces returns an error outcome (data null) whose
\* error is that of the fallback call.
C2_BothPathsFailGivesFallbackError ==
    (/\ method = "queryTraces"
     /\ ClientSettled
     /\ Len(results) = 2
     /\ ~results[1].ok
     /\ ~results[2].ok)
    => /\ result.k = "ret"
       /\ result.v.data = Null
       /\ result.v.error # Null
       /\ Includes(result.v.error[1].message, results[2].err.message)

\* the fields a method requires are present and well-formed, so that the time
\* range is the only rule its arguments can break
OtherRulesPass(m, a) ==
    CASE m \in {"getServiceHealth", "ApmGetServiceDependencies"} -> Truthy(a.serviceName)
      [] m = "queryMetrics" -> Truthy(a.query)
      [] m = "getMonitorEvents" -> ~MissingUnlessZero(a.monitorId)
      [] m = "searchEventsByAlertType" -> Truthy(a.alertType)
      [] m = "searchEventsByTags" ->
             a.tags.t = "array" /\ Len(a.tags.q) > 0 /\ CheckTags(a.tags.q, <<>>).ok
      [] OTHER -> TRUE

\* C3: every client method that takes a time range, called with from >= to,
\* returns an error outcome with the message "Start time must be before end
\* time" and makes no vendor call.
C3_BadRangeFailsWithoutVendorCall ==
    (/\ method \in RangeMethods
     /\ pc # "idle"
     /\ args.from >= args.to
     /\ OtherRulesPass(method, args))
    => /\ calls = <<>>
       /\ result.k = "ret"
       /\ result.v.data = Null
       /\ result.v.error # Null
       /\ result.v.error[1].message = StartBeforeEnd

\* C4: every outcome a client method returns has exactly one of data and
\* error non-null, also when the vendor call succeeds with an empty result.
C4_ExactlyOneOfDataAndError ==
    result.k = "ret" => ((result.v.data = Null) # (result.v.error = Null))

\* C5: every tool handler, whatever its argument object and however its
\* client behaves, resolves to a reply {isError, content} whose content is
\* exactly one item of type "text"; its promise never rejects.
C5_HandlerRepliesOneTextItem ==
    /\ tool # "none" => reply.k # "rej"
    /\ (tool # "none" /\ pc = "done")
       => /\ reply.k = "ret"
          /\ reply.v.isError \in BOOLEAN
          /\ Len(reply.v.content) = 1
          /\ reply.v.content[1].type = "text"

\* a handler has replied after its client's promise rejected
C5_RepliedAfterClientRejected ==
    /\ tool = "handleQueryTraces"
    /\ pc = "done"
    /\ result.k = "rej"
    /\ reply.k = "ret"
    /\ reply.v.isError
    /\ Len(reply.v.content) = 1

\* the client methods whose vendor is the Datadog SDK (the services client
\* talks HTTP itself) and whose outcome can carry the failure of a vendor call
SdkMethods ==
    {"queryTraces", "ApmGetServiceDependencies", "queryMetrics", "getMetricMetadata",
     "listMetrics", "searchLogs", "getLogDetails", "aggregateLogs", "searchEvents",
     "getEventDetails", "getMonitorEvents", "searchEventsByAlertType",
     "searchEventsByTags", "listMonitors", "getMonitorStatus", "searchMonitors"}

\* C6: when a vendor call rejects with an error carrying statusCode s, the
\* error of the method's outcome has statusCode s, and statusCode 500 when the
\* thrown error carries none; this for every client method.
C6_OutcomeStatusCodeIsThrownOr500 ==
    (/\ method \in SdkMethods
     /\ result.k = "ret"
     /\ result.v.error # Null
     /\ results # <<>>
     /\ ~results[Len(results)].ok)
    => result.v.error[1].statusCode
           = Some(StatusCoalesce500(results[Len(results)].err))

\* the name of the span-listing operation of the vendor SDK
SpansApi == "spansApi.listSpansGet"

\* queryTraces has issued a span-listing call
SpanListingAttempted == \E i \in 1..Len(calls) : calls[i].api = SpansApi

\* every call after the first is the metrics fallback, made after the
\* span-listing call before it has rejected
FallbackOnlyAfterSpanFailure ==
    /\ Len(calls) <= 2
    /\ Len(calls) = 2
       => /\ calls[1].api = SpansApi
          /\ calls[2].api = "metricsApi.queryMetrics"
          /\ Len(results) >= 1
          /\ ~results[1].ok

C8_ReplyMessageNamesPath ==
    (/\ tool = "handleQueryTraces"
     /\ pc = "done"
     /\ reply.k = "ret"
     /\ ~reply.v.isError)
    => LET text == reply.v.content[1].text
       IN  /\ text.json
           /\ "message" \in DOMAIN text.body
           /\ results[1].ok => text.body.message \in
                                  {"Trace list from Spans API", "No traces in range"}
           /\ ~results[1].ok => text.body.message = "Trace metrics available"

\* the message of the rule the stated order puts first among those the
\* arguments a of method m break: required fields, then formats, then the
\* time range; Null when they break none
FirstViolation(m, a) ==
    LET range == IF a.from >= a.to THEN Some(StartBeforeEnd) ELSE Null
    IN  CASE m = "aggregateLogs" ->
                 IF ~Truthy(a.aggregationType) THEN Some("Aggregation type is required")
                 ELSE IF ~(\E i \in 1..Len(validTypes) :
                              validTypes[i] = a.aggregationType.v)
                 THEN Some("Invalid aggregation type. Must be one of: "
                           \o "avg, max, min, sum, cardinality")
                 ELSE range
          [] m = "getServiceHealth" ->
                 IF ~Truthy(a.serviceName) THEN Some("Service name is required")
                 ELSE range
          [] m = "queryMetrics" ->
                 IF ~Truthy(a.query) THEN Some("Query parameter is required") ELSE range
          [] m = "getMonitorEvents" ->
                 IF MissingUnlessZero(a.monitorId) THEN Some("Monitor ID is required")
                 ELSE range
          [] m = "searchEventsByAlertType" ->
                 IF ~Truthy(a.alertType) THEN Some("Alert type is required") ELSE range
          [] m = "searchEventsByTags" ->
                 IF a.tags.t # "array" \/ Len(a.tags.q) = 0
                 THEN Some("At least one tag is required")
                 ELSE IF ~CheckTags(a.tags.q, <<>>).ok
                 THEN Some(CheckTags(a.tags.q, <<>>).message)
                 ELSE range

\* the client methods with a required field and a time range
OrderedMethods ==
    {"aggregateLogs", "getServiceHealth", "queryMetrics", "getMonitorEvents",
     "searchEventsByAlertType", "searchEventsByTags"}

\* C9: in every client method the checks run in the order required fields,
\* formats, time range, page size: arguments that break several rules get the
\* error of the first rule broken in that order, and the vendor is called
\* only when they break none.
C9_EarliestViolatedRuleWins ==
    (method \in OrderedMethods /\ tool = "none" /\ pc # "idle")
    => IF FirstViolation(method, args) = Null
       THEN calls # <<>>
       ELSE /\ calls = <<>>
            /\ result.k = "ret"
            /\ result.v.error # Null
            /\ result.v.error[1].message = FirstViolation(method, args)[1]

\* the first vendor call of a paged method, and the page size it carries
\* (Null when it carries none)
PageSizeSent(c) ==
    CASE c.api = "logsApi.listLogs" -> Some(c.params.page.limit)
      [] c.api = SpansApi -> Some(c.params.pageLimit)
      [] c.api = "eventsApi.listEvents" ->
             IF "page_size" \in DOMAIN c.params THEN Some(c.params.page_size) ELSE Null

\* the page size the caller asked for
PageSizeRequested(m, a) == IF m = "searchLogs" THEN a.pageSize ELSE a.options.pageSize

\* C10: every client method that accepts a page size sends min(requested,
\* 100) in its vendor call, 10 when none is requested; a requested 1000 gives
\* a vendor call made with 100: the request is neither rejected nor dropped.
C10_PageSizeSentIsClamped ==
    (/\ method \in {"searchLogs", "searchEvents", "queryTraces"}
     /\ tool = "none"
     /\ pc # "idle"
     /\ args.from < args.to
     /\ (IsNullish(PageSizeRequested(method, args))
         \/ PageSizeRequested(method, args).n >= 1))
    => /\ calls # <<>>
       /\ calls[1].api # "metricsApi.queryMetrics"
          => PageSizeSent(calls[1])
                 = Some(MinOrDefault(PageSizeRequested(method, args), 10, 100))

\* what follows prefix p in str, Null when str does not start with p
AfterPrefix(str, p) ==
    IF Len(str) >= Len(p) /\ SubSeq(str, 1, Len(p)) = p
    THEN Some(SubSeq(str, Len(p) + 1, Len(str)))
    ELSE Null

\* the ID vendor call c carries inside a query string, with its kind; Null
\* when the call carries none
InterpolatedId(c) ==
    CASE c.api = "logsApi.listLogs" /\ "query" \in DOMAIN c.params.filter
             /\ AfterPrefix(c.params.filter.query, "@_id:") # Null ->
             Some([kind |-> "log", id |-> AfterPrefix(c.params.filter.query, "@_id:")[1]])
      [] c.api = "eventsApi.listEvents"
             /\ AfterPrefix(c.params.tags, "monitor_id:") # Null ->
             Some([kind |-> "monitor", id |-> AfterPrefix(c.params.tags, "monitor_id:")[1]])
      [] c.api = "monitorsApi.searchMonitorGroups"
             /\ AfterPrefix(c.params.query, "monitor_id:") # Null ->
             Some([kind |-> "monitor", id |-> AfterPrefix(c.params.query, "monitor_id:")[1]])
      [] OTHER -> Null

\* C11: no caller-supplied ID reaches a vendor query string unvalidated:
\* every log ID inside a query matches [a-zA-Z0-9_-]+ and has at most 512
\* characters, every monitor ID inside a query, in any client, is a
\* non-negative finite number.
C11_IdsInQueriesAreValidated ==
    (tool = "none" /\ method \in {"getLogDetails", "getMonitorEvents", "getMonitorGroups"})
    => \A i \in 1..Len(calls) :
          LET x == InterpolatedId(calls[i])
          IN  x # Null
              => IF x[1].kind = "log"
                 THEN IsSafeLogId(x[1].id) /\ Len(x[1].id) <= 512
                 ELSE IsDigits(x[1].id)

\* C12: for every tag list holding at least one tag with an embedded " AND "
\* or " OR ", in any letter case, searchEventsByTags returns an error outcome
\* and makes no vendor call, whatever the other tags and the time range.
C12_BooleanKeywordTagsRejected ==
    (/\ method = "searchEventsByTags"
     /\ pc # "idle"
     /\ args.tags.t = "array"
     /\ \E i \in 1..Len(args.tags.q) :
           args.tags.q[i].t = "string" /\ HasBooleanKeyword(args.tags.q[i].v))
    => /\ calls = <<>>
       /\ result.k = "ret"
       /\ result.v.data = Null
       /\ result.v.error # Null

\* the filter given to query_metrics is a string with a brace in it
BraceFilter ==
    /\ tool = "handleQueryMetrics"
    /\ input # Undef
    /\ input.filter.t = "string"
    /\ (Includes(input.filter.v, "{") \/ Includes(input.filter.v, "}"))

\* C13: query_metrics called with a filter that contains "{" or "}" answers
\* with an error reply (isError true) and never calls the metrics client.
C13_BraceFilterNeverReachesClient ==
    BraceFilter
    => /\ method = "none"
       /\ calls = <<>>
       /\ pc = "done"
       /\ reply.k = "ret"
       /\ reply.v.isError

\* a brace filter is the only thing wrong with the request, and it was refused
C13_BraceFilterRefused ==
    /\ BraceFilter
    /\ input.metricName = Str("cpu")
    /\ parseTimestamp(input.from).ok
    /\ parseTimestamp(input.to).ok
    /\ parseTimestamp(input.from).v < parseTimestamp(input.to).v
    /\ pc = "done"
    /\ reply.v.isError
    /\ ~reply.v.content[1].text.json
    /\ Includes(reply.v.content[1].text.s, "filter must not contain")

\* get_monitor_status is being served for the monitor ID 0
StatusOfMonitorZero ==
    /\ tool = "handleGetMonitorStatus"
    /\ input # Undef
    /\ input.monitorId.t = "number"
    /\ input.monitorId.n = 0

\* the text of the reply, when it is an error reply
ReplyErrorText ==
    IF reply.k = "ret" /\ reply.v.isError /\ ~reply.v.content[1].text.json
    THEN reply.v.content[1].text.s ELSE ""

\* C14: get_monitor_status called with monitor ID 0 takes the ID as present:
\* it does not answer with the missing-ID error, and it invokes the vendor's
\* monitor lookup with ID 0.
C14_MonitorZeroIsLookedUp ==
    StatusOfMonitorZero
    => /\ method = "getMonitorStatus"
       /\ calls = <<VCall("monitorsApi.getMonitor", [monitorId |-> Num(0)])>>
       /\ ~Includes(ReplyErrorText, "monitorId must be a valid monitor identifier")
       /\ ~Includes(ReplyErrorText, "Monitor ID is required")

\* the lookup of monitor 0 succeeded and the tool replied with its status
C14_MonitorZeroStatusReplied ==
    /\ StatusOfMonitorZero
    /\ pc = "done"
    /\ Len(results) = 1
    /\ results[1].ok
    /\ reply.k = "ret"
    /\ ~reply.v.isError

\* the client's lookups of a monitor's status and details by ID
MonitorLookups == {"getMonitorStatus", "getMonitor", "getMonitorGroups"}

\* the lookup, or the tool in front of it, reported the monitor ID as missing
ReportedMissing ==
    \/ /\ method \in MonitorLookups
       /\ result.k = "ret"
       /\ result.v.error # Null
       /\ result.v.error[1].message = "Monitor ID is required"
    \/ /\ tool = "handleGetMonitorStatus"
       /\ ReplyErrorText = "Error: monitorId must be a valid monitor identifier"

\* the monitor ID the caller supplied
SuppliedMonitorId == IF tool = "none" THEN args.monitorId ELSE input.monitorId

\* C15: the monitor status and detail lookups report the ID as missing exactly
\* when it is null or undefined: every other supplied value, falsy ones
\* included, is not reported as missing.
C15_MissingExactlyWhenNullish ==
    (/\ \/ tool = "none" /\ method \in MonitorLookups /\ ClientSettled
        \/ tool = "handleGetMonitorStatus" /\ input # Undef /\ pc = "done")
    => (ReportedMissing <=> IsNullish(SuppliedMonitorId))

\* a vendor call other than the span listing has rejected
UpstreamFailure ==
    \E i \in 1..Len(results) : ~results[i].ok /\ calls[i].api # SpansApi

\* C16: whenever a vendor call made by a client method rejects, the span
\* listing that the APM fallback recovers from excepted, the method's outcome
\* is an error outcome and the tool's reply has isError true: a failed call is
\* never turned into a success result.
C16_UpstreamFailureSurfaced ==
    UpstreamFailure
    => /\ ClientSettled => (result.k = "ret" /\ result.v.error # Null)
       /\ pc = "done" => (reply.k = "ret" /\ reply.v.isError)

\* C17: within one tool invocation the vendor calls are issued one after
\* another, each settled before the next is issued, and only query_traces
\* (span listing, then metrics fallback) issues more than one: every other
\* tool invocation issues at most one.
C17_VendorCallsSequentialAndSingle ==
    tool # "none"
    => /\ Len(calls) <= Len(results) + 1
       /\ tool # "handleQueryTraces" => Len(calls) <= 1

\* list_monitors has replied to a successful listing
MonitorsListed ==
    /\ tool = "handleListMonitors"
    /\ pc = "done"
    /\ Len(results) = 1
    /\ results[1].ok
    /\ reply.k = "ret"
    /\ ~reply.v.isError

\* C18: when the vendor answers list_monitors with N monitors, the reply's
\* JSON body reports monitorsCount = N and lists all N monitors when N <= 100,
\* and exactly 100 of them when N > 100.
C18_MonitorsListCappedAt100 ==
    MonitorsListed
    => LET N == Len(results[1].resp)
           body == reply.v.content[1].text.body
       IN  /\ body.monitorsCount = N
           /\ Len(body.monitors) = IF N <= 100 THEN N ELSE 100

\* the handler has replied after its client returned an error outcome
RepliedToErrorOutcome ==
    /\ tool # "none"
    /\ pc = "done"
    /\ result.k = "ret"
    /\ result.v.error # Null

\* C19: whenever the client returns an error outcome, the handler, of
\* whichever domain, renders the reply text through formatToolError(message,
\* statusCode), so that an error with status 401, 403, 404 or 429 always
\* yields a reply carrying the hint for that status.
C19_ErrorOutcomeRenderedWithHint ==
    RepliedToErrorOutcome
    => LET error == result.v.error[1]
       IN  Includes(ReplyErrorText, formatToolError(error.message, error.statusCode))

\* the hint rules in their documented order: 401/403, 404, 429, the
\* wording of a range in the wrong order, the wording of an invalid format
RuleMatches(i, message, statusCode) ==
    CASE i = 1 -> statusCode \in {Some(401), Some(403)}
      [] i = 2 -> statusCode = Some(404)
      [] i = 3 -> statusCode = Some(429)
      [] i = 4 -> \/ Includes(message, "must be before")
                  \/ Includes(message, "Start time")
                  \/ (Includes(message, "from") /\ Includes(message, "to"))
      [] i = 5 -> Includes(message, "Invalid") /\ Includes(message, "format")

RuleHint(i) ==
    CASE i = 1 -> "Check DATADOG_API_KEY and DATADOG_APP_KEY and that the app key has the required scopes."
      [] i = 2 -> "No resource found. Check the ID or query and try again."
      [] i = 3 -> "Datadog rate limit hit. Retry after a short delay or reduce request frequency."
      [] i = 4 -> "Ensure 'from' is before 'to'."
      [] i = 5 -> "Use Unix timestamp (seconds or ms) or ISO 8601 (e.g. 2021-01-01T00:00:00Z)."

MatchingRules(message, statusCode) == {i \in 1..5 : RuleMatches(i, message, statusCode)}

\* C20: formatToolError appends at most one hint, by the fixed precedence
\* 401/403, then 404, then 429, then range-order wording, then invalid-format
\* wording: the text is the message followed by the hint of the first rule
\* that matches and of no other, and the message alone when none matches.
C20_FirstMatchingHintOnly ==
    formatted # Null
    => LET message == hintArgs[1].message
           matching == MatchingRules(message, hintArgs[1].statusCode)
           first == CHOOSE i \in matching : \A j \in matching : i <= j
       IN  formatted[1] = IF matching = {} THEN message
                          ELSE message \o " " \o RuleHint(first)

\* an error that three rules match (404, range wording, invalid format) was
\* formatted, and carries the 404 hint
C20_FormattedWithSeveralRulesMatching ==
    /\ formatted # Null
    /\ {2, 4, 5} \subseteq MatchingRules(hintArgs[1].message, hintArgs[1].statusCode)
    /\ formatted[1] = hintArgs[1].message \o " " \o RuleHint(2)

\* the number a time value stands for: the number itself, or the integer a
\* string of digits spells
TimeMagnitude(x) ==
    IF x.t = "number" THEN Some(x.n)
    ELSE IF x.t = "string" /\ x.v # "" /\ IsDigits(x.v) THEN ParseInt(x.v)
    ELSE Null

SecondsParsers == {"parseTimestamp", "parseEventsTimestamp"}

\* C21: in every tool, the timestamp parser reads a number below
\* 10,000,000,000 as seconds and one at or above it as milliseconds, and
\* converts it to the unit of the tool's client: seconds for metrics and
\* events, milliseconds for logs and APM; a string of digits is read by the
\* same rule.
C21_MagnitudeDecidesUnit ==
    (/\ parsedTime # Null
     /\ TimeMagnitude(timeArg[1]) # Null
     /\ (parsedTime[1].parser \in SecondsParsers \/ ~parsedTime[1].asSeconds))
    => LET n == TimeMagnitude(timeArg[1])[1]
           seconds == IF n < MsThreshold THEN n ELSE n \div 1000
           millis == IF n < MsThreshold THEN n * 1000 ELSE n
           r == parsedTime[1].r
       IN  /\ r.ok
           /\ r.v = IF parsedTime[1].parser \in SecondsParsers THEN seconds ELSE millis

\* the parsers that produce milliseconds unless asked for seconds
MillisParsers == {"parseLogsTimestamp", "parseApmTimestamp"}

\* a number below the threshold has been parsed
ParsedSmallNumber ==
    /\ parsedTime # Null
    /\ timeArg[1].t = "number"
    /\ timeArg[1].n < MsThreshold

\* C22: for every numeric timestamp t below the threshold, the seconds a
\* parser makes of t, times 1000, are the milliseconds a parser makes of t.
C22_SecondsTimes1000IsMillis ==
    ParsedSmallNumber
    => LET t == timeArg[1]
           r == parsedTime[1].r
       IN  /\ r.ok
           /\ IF parsedTime[1].parser \in MillisParsers /\ ~parsedTime[1].asSeconds
              THEN /\ parseApmTimestamp(t, TRUE).v * 1000 = r.v
                   /\ parseTimestamp(t).v * 1000 = r.v
              ELSE r.v * 1000 = parseApmTimestamp(t, FALSE).v

\* the largest number of seconds below the threshold was parsed to milliseconds
C22_LargestSecondsParsedToMillis ==
    /\ ParsedSmallNumber
    /\ timeArg[1].n = MsThreshold - 1
    /\ parsedTime[1].parser = "parseLogsTimestamp"
    /\ ~parsedTime[1].asSeconds
    /\ parsedTime[1].r.v = (MsThreshold - 1) * 1000

\* the events client's convenience methods
ConvenienceMethods == {"getMonitorEvents", "searchEventsByAlertType", "searchEventsByTags"}

\* C23: the events convenience methods (by alert type, by tags, by monitor
\* ID) do not validate the time range themselves: in each call `from < to` is
\* checked at most once, and only inside searchEvents, to which they delegate.
C23_RangeCheckedOnlyInSearchEvents ==
    (method \in ConvenienceMethods /\ pc # "idle")
    => /\ OwnRangeChecks(method, args) = 0
       /\ RangeChecks(method, args) <= 1

\* the duration a span shows: attrs.duration ?? span.duration
ObservedDuration(span) == Coalesce(span.duration, span.spanDuration)

\* the greatest duration shown by the spans of trace id in the response, Null
\* when none of them shows one
MaxDuration(spans, id) ==
    LET shown == {ObservedDuration(spans[i])[1] :
                     i \in {j \in 1..Len(spans) : /\ spans[j].trace_id = id
                                                  /\ ObservedDuration(spans[j]) # Null}}
    IN  IF shown = {} THEN Null ELSE Some(CHOOSE d \in shown : \A e \in shown : e <= d)

\* queryTraces has returned the traces grouped from a span listing
TracesFromSpans ==
    /\ method = "queryTraces"
    /\ Len(results) = 1
    /\ results[1].ok
    /\ calls[1].api = SpansApi
    /\ result.k = "ret"
    /\ result.v.data # Null

\* C24: on the span path of queryTraces, the duration of each returned trace
\* is the greatest duration shown by the spans with its trace ID, in whatever
\* order the vendor response lists them.
C24_TraceDurationIsMaxOfSpans ==
    TracesFromSpans
    => LET traces == result.v.data[1].traces
           spans == results[1].resp.data
       IN  \A i \in 1..Len(traces) :
              traces[i].duration = MaxDuration(spans, traces[i].trace_id)

\* the request being served names a tool that is not in the registry
UnknownToolRequested ==
    /\ request # Null
    /\ request[1] \notin {allTools[i].name : i \in 1..Len(allTools)}

\* the server is back where it was before the request
ReadyForNextRequest ==
    /\ proc = "running"
    /\ pc = "idle"
    /\ request = Null
    /\ tool = "none"
    /\ reply = Nothing

\* C25: a tools/call request naming a tool that is not in the registry fails
\* that request and nothing else: the request is answered with the error
\* "Tool not found", no handler runs and no vendor call is made, the process
\* keeps running, and the server goes on to take the next request as before.
C25_UnknownToolFailsOnlyItsRequest ==
    /\ [](UnknownToolRequested
          => /\ reply = Rejected(Error("Tool not found: " \o request[1], Null))
             /\ tool = "none"
             /\ method = "none"
             /\ calls = <<>>
             /\ proc = "running")
    /\ [][UnknownToolRequested => ReadyForNextRequest']_vars

\* a request for an unknown tool has been answered
C25_UnknownToolAnswered ==
    /\ UnknownToolRequested
    /\ request[1] = "delete_monitor"
    /\ pc = "done"
    /\ reply.k = "rej"

\* invocation v fed the upstream answers rs, one after another, with nothing
\* else going on
RECURSIVE Feed(_, _)
Feed(v, rs) ==
    IF v.pc = "await" /\ rs # <<>> THEN Feed(SettleInv(v, Head(rs)), Tail(rs))
    ELSE IF v.pc = "settled"
    THEN [v EXCEPT !.pc = "done", !.reply = HandlerSettle(v.tool, v.input, v.result)]
    ELSE v

\* the reply handler h gives to inp when it runs alone against the answers rs
RunAlone(h, inp, rs) == Feed(BeginInv(h, inp), rs).reply

UpstreamAnswers(v) == v.results

ListedDefinitions(name) == {i \in 1..Len(allTools) : allTools[i].name = name}

\* C28: every advertised tool name identifies exactly one tool: the list of
\* tools/list holds one definition of that name, and a tools/call request
\* carrying the name runs the handler that belongs to that definition.
C28_ListedNameRunsItsOwnHandler ==
    (request # Null /\ tool # "none")
    => /\ Cardinality(ListedDefinitions(request[1])) = 1
       /\ \A i \in ListedDefinitions(request[1]) : allTools[i].handler = tool

\* the enum of aggregationType in the input schema of aggregate_logs
AdvertisedAggregationTypes == {"count", "avg", "percentile", "min", "max", "sum"}

\* aggregate_logs has replied to a call with a valid time range and an
\* aggregation type out of ts
AggregatedWithTypeOf(ts) ==
    /\ tool = "handleAggregateLogs"
    /\ pc = "done"
    /\ input # Undef
    /\ input.from.t = "number"
    /\ input.to.t = "number"
    /\ input.from.n < input.to.n
    /\ input.aggregationType.t = "string"
    /\ input.aggregationType.v \in ts

\* C29: every aggregationType of the schema enum of aggregate_logs passes the
\* validation of the logs client: a call with a valid time range and any
\* advertised value reaches the vendor's aggregate call.
C29_AdvertisedTypeReachesVendor ==
    AggregatedWithTypeOf(AdvertisedAggregationTypes)
    => \E i \in 1..Len(calls) : calls[i].api = "logsApi.aggregateLogs"

\* list_monitors has replied with a listing; its reply echoes the filters
ListedWithFilters ==
    /\ tool = "handleListMonitors"
    /\ pc = "done"
    /\ Len(calls) = 1
    /\ reply.k = "ret"
    /\ ~reply.v.isError

\* the filters as the reply of list_monitors echoes them
EchoedFilters == reply.v.content[1].text.body.filters

\* value is among the parameters handed to the vendor's monitor listing
ForwardedToVendor(value) ==
    \E k \in DOMAIN calls[1].params : calls[1].params[k] = Some(value)

\* C30: every filter list_monitors accepts and echoes in its reply, the
\* status and the tags, is forwarded into the parameters of the vendor's
\* monitor-listing call.
C30_EchoedFiltersAreForwarded ==
    ListedWithFilters
    => /\ EchoedFilters.status # "any" => ForwardedToVendor(EchoedFilters.status)
       /\ (EchoedFilters.tags.t = "array" /\ Len(EchoedFilters.tags.q) > 0)
          => ForwardedToVendor(
                 Join([i \in 1..Len(EchoedFilters.tags.q) |-> EchoedFilters.tags.q[i].v],
                      ","))
====
